---- MODULE Spec2Model ----
(***************************************************************************)
(* Verification model of the Orderbook benchmark harness:                  *)
(*   - AtomicRingBuffer<T> (include/AtomicRingBuffer.hpp), the bounded     *)
(*     Vyukov ring, one action per atomic memory access of push and pop;   *)
(*   - OrderGenerator::operator() (the producer thread);                   *)
(*   - MatchingWorker::operator() (the worker threads);                    *)
(*   - main(), which wires one ring and one worker per queue.              *)
(* Thread 0 is the producer thread; thread w + 1 is worker w, which owns   *)
(* ring w.  The ring-only specifications run push and pop from free        *)
(* callers on ring 0.  Memory is sequentially consistent in the model.     *)
(***************************************************************************)
EXTENDS Integers, Naturals, Sequences, FiniteSets, TLC

(* ------------------------------ bounds -------------------------------- *)

\* Width of size_t, scaled down.
SIZE_BITS == 4
\* Requested size handed to the ring constructor.
RingSize == 2
\* Number of push calls the free callers of the ring-only specifications make.
MaxItems == 3
\* Largest cfg_.num_orders of the system specifications.
MaxOrders == 4
\* Largest number of workers (and rings) of the system specifications.
MaxWorkers == 2
\* MatchingWorker::BATCH_SIZE, scaled down.
BATCH_SIZE == 2
\* Messages a worker accumulates before it flushes its counters, scaled down.
FLUSH_EVERY == 2
\* Failed pushes the producer spins through before it yields, scaled down.
SPIN_LIMIT == 2
\* MatchingEngine template parameter MAX_TICKS (Config::MAX_TICKS), scaled down.
MAX_TICKS == 3
\* MatchingEngine template parameter MAX_ORDERS (Config::MAX_ORDERS), scaled down.
MAX_ORDERS == 3
\* MatchingEngine template parameter WORD_BITS (bits per occupancy word), scaled down.
WORD_BITS == 2
\* Width in bits of the engine's unsigned fields (uint32_t), scaled down.
UINT_BITS == 6
\* Largest quantity of an engine call.
MaxQty == 2
\* Number of engine calls in a run of the engine specification.
MaxCalls == 4

(* --------------------------- bit arithmetic ---------------------------- *)

RECURSIVE BitAnd(_, _)
BitAnd(a, b) ==
    IF a = 0 \/ b = 0 THEN 0
    ELSE (IF a % 2 = 1 /\ b % 2 = 1 THEN 1 ELSE 0) + 2 * BitAnd(a \div 2, b \div 2)

RECURSIVE BitOr(_, _)
BitOr(a, b) ==
    IF a = 0 THEN b
    ELSE IF b = 0 THEN a
    ELSE (IF a % 2 = 1 \/ b % 2 = 1 THEN 1 ELSE 0) + 2 * BitOr(a \div 2, b \div 2)

RECURSIVE ShiftRight(_, _)
ShiftRight(n, k) == IF k = 0 THEN n ELSE ShiftRight(n \div 2, k - 1)

\* n |= n >> k
OrShift(n, k) == BitOr(n, ShiftRight(n, k))

\* size_t arithmetic: the value modulo 2^SIZE_BITS.
SizeMod == 2 ^ SIZE_BITS
WrapSize(x) == x % SizeMod

\* Mutant: without the n-- before the shifts.
nextPowerOf2_NoDecrement(n) ==
    IF n <= 1 THEN 2
    ELSE WrapSize(OrShift(OrShift(OrShift(OrShift(OrShift(OrShift(n, 1), 2), 4), 8), 16), 32) + 1)

\* n--; n |= n >> 1; ... n |= n >> 32; return n + 1 (in size_t)
nextPowerOf2(n) ==
    IF n <= 1 THEN 2
    ELSE WrapSize(OrShift(OrShift(OrShift(OrShift(OrShift(OrShift(n - 1, 1), 2), 4), 8), 16), 32) + 1)

(* ------------------------------- state --------------------------------- *)

VARIABLES
    size,         \* history: the argument of the ring constructor
    capacity_,    \* AtomicRingBuffer::capacity_ (the same for all rings of a run)
    mask_,        \* AtomicRingBuffer::mask_
    head_,        \* head_[q]: consumer position of ring q
    tail_,        \* tail_[q]: producer position of ring q
    cellSeq,      \* cellSeq[q][i]: buffer_[i].seq of ring q
    cellData,     \* cellData[q][i]: buffer_[i].data of ring q
    role,         \* role[t]: "producer" or "consumer"; its domain is the thread set
    pc,           \* pc[t]: position of thread t inside push or pop
    pos,          \* pos[t]: the local pos of the running push or pop
    item,         \* item[t]: the argument of push, or the out-parameter of pop
    rq,           \* rq[t]: the ring thread t is operating on
    callObs,      \* history: what held of the ring when thread t entered its call
    pushedLog,    \* history: per ring, the items of successful pushes, in order
    poppedLog,    \* history: per ring, the items of successful pops, in order
    nextItem,     \* history: items handed out to the free callers so far
    num_orders,   \* cfg_.num_orders
    done_,        \* the shared std::atomic<bool> done flag
    stats_generated, stats_pushed, stats_popped,   \* Stats counters
    gpc,          \* position of OrderGenerator::operator()
    gi,           \* its loop variable i
    cur_worker_,  \* OrderGenerator::cur_worker_
    generated,    \* its local counter generated
    pushed,       \* its local counter pushed
    retry_count,  \* its local retry_count
    wpc,          \* wpc[w]: position of worker w in MatchingWorker::operator()
    emptyH,       \* emptyH[w]: the local h of the running ring_.empty()
    batch,        \* batch[w]: the messages popBatch has stored so far
    local_popped, \* local_popped[w]
    total_processed,  \* total_processed[w]
    engine,       \* the MatchingEngine object: its data members
    call,         \* history: the last engine call, its arguments, result and trades
    ncalls,       \* history: number of engine calls made so far
    restedAt,     \* history: restedAt[i]: the call that rested the order in pool slot i
    cancel_every, \* cfg_.cancel_every
    max_qty,      \* cfg_.max_qty
    active_orders_per_worker,  \* OrderGenerator: the handles it may still cancel
    emitted,      \* history: the messages the generator has built, in order
    local_donefill, local_cancels, local_rejected,   \* per worker
    synthetic_to_engine_handle,  \* per worker: the keys of the map
    engine_,      \* engine_[w]: the MatchingEngine member of worker w
    handled,      \* history: handled[w]: the messages worker w has processed
    stats_donefill, stats_cancels, stats_rejected,   \* Stats counters
    solo,         \* the threads still running once all others are suspended: {} or {t}
    soloSteps,    \* history: steps the running thread took in its call since then
    obs,          \* the thread calling empty / full / size / available: its locals
    twin          \* a second MatchingEngine object and the result of its last call

ringVars == <<head_, tail_, cellSeq, cellData>>
threadVars == <<role, pc, pos, item, rq>>
histVars == <<callObs, pushedLog, poppedLog, nextItem>>
genVars == <<gpc, gi, cur_worker_, generated, pushed, retry_count>>
workerVars == <<wpc, emptyH, batch, local_popped, total_processed>>
sharedVars == <<num_orders, done_, stats_generated, stats_pushed, stats_popped>>
engineVars == <<engine, call, ncalls, restedAt>>
flowVars == <<cancel_every, max_qty, active_orders_per_worker, emitted,
              local_donefill, local_cancels, local_rejected,
              synthetic_to_engine_handle, engine_, handled,
              stats_donefill, stats_cancels, stats_rejected>>
ctorVars == <<size, capacity_, mask_>>
probeVars == <<solo, soloSteps, obs>>
twinVars == <<twin>>
sysVars == <<genVars, workerVars, sharedVars, engineVars, flowVars, ctorVars, probeVars, twinVars>>
vars == <<ringVars, threadVars, histVars, sysVars>>

\* OrderMsg{}: every field zero.
NoItem == [client_id |-> 0, worker_id |-> 0]

Cells == 0 .. (capacity_ - 1)

\* The constructor: capacity_(nextPowerOf2(size)), mask_(capacity_ - 1),
\* head_(0), tail_(0), buffer_[i].seq = i.
NewRings(qs, n) ==
    /\ size = n
    /\ capacity_ = nextPowerOf2(n)
    /\ mask_ = WrapSize(capacity_ - 1)
    /\ head_ = [q \in qs |-> 0]
    /\ tail_ = [q \in qs |-> 0]
    /\ cellSeq = [q \in qs |-> [i \in Cells |-> i]]
    /\ cellData = [q \in qs |-> [i \in Cells |-> NoItem]]

Returned == {"idle", "push_true", "push_false", "pop_true", "pop_false"}

(* ------------------------ AtomicRingBuffer::push ----------------------- *)

\* Mutant: every position uses cell 0.
CellIndex_Zero(p) == 0

\* Cell &cell = buffer_[pos & mask_]
CellIndex(p) == BitAnd(p, mask_)

\* Mutant: the difference is taken unsigned-style and never goes negative.
PushDif_Clamped(s, p) == IF s < p THEN 0 ELSE s - p

\* intptr_t dif = (intptr_t)seq - (intptr_t)pos
PushDif(s, p) == s - p

\* Mutant: the slot is published for the next lap (pos + capacity_).
PushPublishedSeq_Lap(p) == p + capacity_

\* cell.seq.store(pos + 1, release)
PushPublishedSeq(p) == p + 1

\* Mutant: the position is claimed by a plain store, whatever its current value.
CasMatches_Always(current, expected) == TRUE

\* compare_exchange_weak(expected, desired): succeeds only if the atomic holds expected.
CasMatches(current, expected) == current = expected

\* Some item at a position in [head, tail) is committed and not yet popped.
CommittedExists(q) ==
    \E p \in head_[q] .. (tail_[q] - 1) : cellSeq[q][CellIndex(p)] = p + 1

\* No producer thread is inside push and none will call push again.
PushersStopped ==
    /\ nextItem = MaxItems
    /\ \A t \in DOMAIN role : role[t] = "producer" => pc[t] \in {"idle", "push_true"}

\* What holds of ring q at the moment push is entered.
ObservePush(q) ==
    [space |-> tail_[q] - head_[q] < capacity_, committed |-> FALSE, quiet |-> FALSE]

\* What holds of ring q at the moment pop is entered.
ObservePop(q) ==
    [space |-> FALSE, committed |-> CommittedExists(q), quiet |-> PushersStopped]

\* Entry of push: size_t pos = tail_.load(relaxed).
PushEnter(t, q, m) ==
    /\ pc[t] \in Returned
    /\ pc' = [pc EXCEPT ![t] = "push_seq"]
    /\ pos' = [pos EXCEPT ![t] = tail_[q]]
    /\ item' = [item EXCEPT ![t] = m]
    /\ rq' = [rq EXCEPT ![t] = q]
    /\ callObs' = [callObs EXCEPT ![t] = ObservePush(q)]

\* seq = cell.seq.load(acquire); the branch on dif.
PushLoadSeq(t) ==
    /\ pc[t] = "push_seq"
    /\ LET dif == PushDif(cellSeq[rq[t]][CellIndex(pos[t])], pos[t])
       IN  /\ pc' = [pc EXCEPT ![t] = IF dif = 0 THEN "push_cas"
                                       ELSE IF dif < 0 THEN "push_false"
                                       ELSE "push_reload"]
           /\ pos' = [pos EXCEPT ![t] = IF dif < 0 THEN 0 ELSE @]
    /\ UNCHANGED <<ringVars, role, item, rq, histVars>>

\* Mutant: the branch dif > 0 goes round the loop with the pos it had.
ReloadedPos_Stale(current, p) == p

\* pos = tail_.load(relaxed), pos = head_.load(relaxed): the value pos takes
\* in the branch dif > 0.
ReloadedPos(current, p) == current

\* pos = tail_.load(relaxed) of the dif > 0 branch.
PushReload(t) ==
    /\ pc[t] = "push_reload"
    /\ pos' = [pos EXCEPT ![t] = ReloadedPos(tail_[rq[t]], pos[t])]
    /\ pc' = [pc EXCEPT ![t] = "push_seq"]
    /\ UNCHANGED <<ringVars, role, item, rq, histVars>>

\* tail_.compare_exchange_weak(pos, pos + 1, relaxed)
PushCas(t) ==
    /\ pc[t] = "push_cas"
    /\ IF CasMatches(tail_[rq[t]], pos[t])
       THEN /\ tail_' = [tail_ EXCEPT ![rq[t]] = pos[t] + 1]
            /\ pc' = [pc EXCEPT ![t] = "push_write"]
            /\ UNCHANGED pos
       ELSE /\ pos' = [pos EXCEPT ![t] = tail_[rq[t]]]
            /\ pc' = [pc EXCEPT ![t] = "push_seq"]
            /\ UNCHANGED tail_
    /\ UNCHANGED <<head_, cellSeq, cellData, role, item, rq, histVars>>

\* compare_exchange_weak may fail although tail_ == pos; pos keeps its value.
PushCasSpurious(t) ==
    /\ pc[t] = "push_cas"
    /\ tail_[rq[t]] = pos[t]
    /\ pc' = [pc EXCEPT ![t] = "push_seq"]
    /\ UNCHANGED <<ringVars, role, pos, item, rq, histVars>>

\* std::memcpy(&cell.data, &item, sizeof(T))
PushWrite(t) ==
    /\ pc[t] = "push_write"
    /\ cellData' = [cellData EXCEPT ![rq[t]][CellIndex(pos[t])] = item[t]]
    /\ pc' = [pc EXCEPT ![t] = "push_store"]
    /\ UNCHANGED <<head_, tail_, cellSeq, role, pos, item, rq, histVars>>

\* cell.seq.store(pos + 1, release); return true
PushStore(t) ==
    /\ pc[t] = "push_store"
    /\ cellSeq' = [cellSeq EXCEPT ![rq[t]][CellIndex(pos[t])] = PushPublishedSeq(pos[t])]
    /\ pc' = [pc EXCEPT ![t] = "push_true"]
    /\ pos' = [pos EXCEPT ![t] = 0]
    /\ pushedLog' = [pushedLog EXCEPT ![rq[t]] = Append(@, item[t])]
    /\ UNCHANGED <<head_, tail_, cellData, role, item, rq, callObs, poppedLog, nextItem>>

PushStep(t) ==
    \/ PushLoadSeq(t)
    \/ PushReload(t)
    \/ PushCas(t)
    \/ PushWrite(t)
    \/ PushStore(t)

(* ------------------------ AtomicRingBuffer::pop ------------------------ *)

\* Mutant: the consumer compares seq with pos, as push does.
PopDif_NoPlusOne(s, p) == s - p

\* intptr_t dif = (intptr_t)seq - (intptr_t)(pos + 1)
PopDif(s, p) == s - (p + 1)

\* Mutant: the slot is released one lap short (pos + mask_).
PopReleasedSeq_Mask(p) == p + mask_

\* cell.seq.store(pos + capacity_, release)
PopReleasedSeq(p) == p + capacity_

\* Entry of pop: size_t pos = head_.load(relaxed).
PopEnter(t, q) ==
    /\ pc[t] \in Returned
    /\ pc' = [pc EXCEPT ![t] = "pop_seq"]
    /\ pos' = [pos EXCEPT ![t] = head_[q]]
    /\ rq' = [rq EXCEPT ![t] = q]
    /\ callObs' = [callObs EXCEPT ![t] = ObservePop(q)]

\* seq = cell.seq.load(acquire); the branch on dif.
PopLoadSeq(t) ==
    /\ pc[t] = "pop_seq"
    /\ LET dif == PopDif(cellSeq[rq[t]][CellIndex(pos[t])], pos[t])
       IN  /\ pc' = [pc EXCEPT ![t] = IF dif = 0 THEN "pop_cas"
                                       ELSE IF dif < 0 THEN "pop_false"
                                       ELSE "pop_reload"]
           /\ pos' = [pos EXCEPT ![t] = IF dif < 0 THEN 0 ELSE @]
    /\ UNCHANGED <<ringVars, role, item, rq, histVars>>

\* pos = head_.load(relaxed) of the dif > 0 branch.
PopReload(t) ==
    /\ pc[t] = "pop_reload"
    /\ pos' = [pos EXCEPT ![t] = ReloadedPos(head_[rq[t]], pos[t])]
    /\ pc' = [pc EXCEPT ![t] = "pop_seq"]
    /\ UNCHANGED <<ringVars, role, item, rq, histVars>>

\* head_.compare_exchange_weak(pos, pos + 1, relaxed)
PopCas(t) ==
    /\ pc[t] = "pop_cas"
    /\ IF CasMatches(head_[rq[t]], pos[t])
       THEN /\ head_' = [head_ EXCEPT ![rq[t]] = pos[t] + 1]
            /\ pc' = [pc EXCEPT ![t] = "pop_read"]
            /\ UNCHANGED pos
       ELSE /\ pos' = [pos EXCEPT ![t] = head_[rq[t]]]
            /\ pc' = [pc EXCEPT ![t] = "pop_seq"]
            /\ UNCHANGED head_
    /\ UNCHANGED <<tail_, cellSeq, cellData, role, item, rq, histVars>>

\* compare_exchange_weak may fail although head_ == pos; pos keeps its value.
PopCasSpurious(t) ==
    /\ pc[t] = "pop_cas"
    /\ head_[rq[t]] = pos[t]
    /\ pc' = [pc EXCEPT ![t] = "pop_seq"]
    /\ UNCHANGED <<ringVars, role, pos, item, rq, histVars>>

\* std::memcpy(&item, &cell.data, sizeof(T))
PopRead(t) ==
    /\ pc[t] = "pop_read"
    /\ item' = [item EXCEPT ![t] = cellData[rq[t]][CellIndex(pos[t])]]
    /\ pc' = [pc EXCEPT ![t] = "pop_store"]
    /\ UNCHANGED <<ringVars, role, pos, rq, histVars>>

\* cell.seq.store(pos + capacity_, release); return true
PopStore(t) ==
    /\ pc[t] = "pop_store"
    /\ cellSeq' = [cellSeq EXCEPT ![rq[t]][CellIndex(pos[t])] = PopReleasedSeq(pos[t])]
    /\ pc' = [pc EXCEPT ![t] = "pop_true"]
    /\ pos' = [pos EXCEPT ![t] = 0]
    /\ poppedLog' = [poppedLog EXCEPT ![rq[t]] = Append(@, item[t])]
    /\ UNCHANGED <<head_, tail_, cellData, role, item, rq, callObs, pushedLog, nextItem>>

PopStep(t) ==
    \/ PopLoadSeq(t)
    \/ PopReload(t)
    \/ PopCas(t)
    \/ PopRead(t)
    \/ PopStore(t)

(* --------------------- free callers of one ring ------------------------ *)

\* A producer thread calls push with the next fresh item.
CallPush(t) ==
    /\ role[t] = "producer"
    /\ pc[t] # "push_false"
    /\ nextItem < MaxItems
    /\ nextItem' = nextItem + 1
    /\ PushEnter(t, 0, [client_id |-> nextItem + 1, worker_id |-> 0])
    /\ UNCHANGED <<ringVars, role, pushedLog, poppedLog>>

\* A producer thread whose push returned false calls push again with the same item.
CallPushAgain(t) ==
    /\ role[t] = "producer"
    /\ pc[t] = "push_false"
    /\ PushEnter(t, 0, item[t])
    /\ UNCHANGED <<ringVars, role, pushedLog, poppedLog, nextItem>>

\* A consumer thread calls pop.
CallPop(t) ==
    /\ role[t] = "consumer"
    /\ PopEnter(t, 0)
    /\ UNCHANGED <<ringVars, role, item, pushedLog, poppedLog, nextItem>>

InitThreads(roles) ==
    /\ role = roles
    /\ pc = [t \in DOMAIN roles |-> "idle"]
    /\ pos = [t \in DOMAIN roles |-> 0]
    /\ item = [t \in DOMAIN roles |-> NoItem]
    /\ rq = [t \in DOMAIN roles |-> 0]
    /\ callObs = [t \in DOMAIN roles |-> [space |-> FALSE, committed |-> FALSE, quiet |-> FALSE]]

InitHist(qs) ==
    /\ pushedLog = [q \in qs |-> <<>>]
    /\ poppedLog = [q \in qs |-> <<>>]
    /\ nextItem = 0

(* ============================ MatchingEngine =========================== *)

\* Sentinels of MatchingEngine and the side encoding.
\* Number of values of an unsigned field of the engine.
UintMod == 2 ^ UINT_BITS
\* NIL = NO_PRICE = 0xFFFFFFFF and DONE_FILL = 0xFFFFFFFE: the largest and
\* the second largest value of the field.
NIL == UintMod - 1
NO_PRICE == UintMod - 1
DONE_FILL == UintMod - 2
SIDE_BUY == 0
SIDE_SELL == 1

Ticks == 0 .. (MAX_TICKS - 1)
Slots == 0 .. (MAX_ORDERS - 1)
WORDS == (MAX_TICKS + WORD_BITS - 1) \div WORD_BITS
Words == 0 .. (WORDS - 1)

\* Arithmetic of a uint32_t field.
Wrap32(x) == x % UintMod

\* n << k, not truncated.
ShiftLeft(n, k) == n * (2 ^ k)
\* ~0ull: a word with every bit set.
AllOnes == (2 ^ WORD_BITS) - 1
\* ~x within one word.
BitNot(x) == AllOnes - x
\* A shift left truncated to the word.
ShiftLeftWord(n, k) == ShiftLeft(n, k) % (2 ^ WORD_BITS)

countr_zero_Zero(word) == 0

RECURSIVE countr_zero(_)
countr_zero(word) ==
    IF word = 0 THEN WORD_BITS
    ELSE IF word % 2 = 1 THEN 0
    ELSE 1 + countr_zero(word \div 2)

RECURSIVE BitLength(_)
BitLength(word) == IF word = 0 THEN 0 ELSE 1 + BitLength(word \div 2)

countl_zero_Zero(word) == 0

countl_zero(word) == WORD_BITS - BitLength(word)

\* PriceLevel{}
EmptyLevel == [head |-> NIL, tail |-> NIL, total_qty |-> 0]

\* The data members as their default member initialisers leave them.
ZeroEngine ==
    [ bids_         |-> [t \in Ticks |-> EmptyLevel],
      asks_         |-> [t \in Ticks |-> EmptyLevel],
      bids_bits_    |-> [w \in Words |-> 0],
      asks_bits_    |-> [w \in Words |-> 0],
      best_bid_     |-> NO_PRICE,
      best_ask_     |-> NO_PRICE,
      pool_         |-> [i \in Slots |->
                            [id |-> 0, price_tick |-> 0, qty |-> 0,
                             next_idx |-> 0, prev_idx |-> 0, side |-> 0]],
      handles_      |-> [i \in Slots |-> 0],
      free_head_    |-> NIL,
      next_handle_  |-> 0,
      total_trades_ |-> 0,
      total_volume_ |-> 0 ]

\* reset(): relink the free list, clear handles, levels, bitsets, best
\* prices and counters.  The id, price_tick and side of a pool node are not
\* touched.
reset(E) ==
    [ E EXCEPT
        !.free_head_    = 0,
        !.pool_         = [i \in Slots |->
                              [E.pool_[i] EXCEPT
                                  !.next_idx = IF i = MAX_ORDERS - 1 THEN NIL ELSE i + 1,
                                  !.prev_idx = NIL,
                                  !.qty = 0]],
        !.handles_      = [i \in Slots |-> NIL],
        !.bids_bits_    = [w \in Words |-> 0],
        !.asks_bits_    = [w \in Words |-> 0],
        !.bids_         = [t \in Ticks |-> EmptyLevel],
        !.asks_         = [t \in Ticks |-> EmptyLevel],
        !.best_bid_     = NO_PRICE,
        !.best_ask_     = NO_PRICE,
        !.total_trades_ = 0,
        !.total_volume_ = 0,
        !.next_handle_  = 0 ]

\* MatchingEngine() { reset(); }
NewEngine == reset(ZeroEngine)

(* ----------------------------- pool helpers ---------------------------- *)

\* Sequencing of two calls: first is computed once, then Op is applied to
\* its value.
After(first, Op(_)) == CHOOSE r \in {Op(v) : v \in {first}} : TRUE

\* Mutant: alloc_node finds the free list empty whatever it holds.
PoolEmpty_Always(free_head) == TRUE

\* if (unlikely(free_head_ == NIL)) return NIL;
PoolEmpty(free_head) == free_head = NIL

\* alloc_node(): pop the free list; idx is NIL when the pool is exhausted.
alloc_node(E) ==
    IF PoolEmpty(E.free_head_) THEN [E |-> E, idx |-> NIL]
    ELSE LET idx == E.free_head_
         IN  [E   |-> [E EXCEPT !.free_head_ = E.pool_[idx].next_idx,
                                !.pool_[idx].next_idx = NIL,
                                !.pool_[idx].prev_idx = NIL],
              idx |-> idx]

free_node_Lost(E, idx) == E

\* free_node(idx): push the node on the free list.
free_node(E, idx) ==
    [E EXCEPT !.pool_[idx].next_idx = E.free_head_,
              !.free_head_ = idx]

(* ---------------------------- bitset helpers --------------------------- *)

set_bit(bits, tick) ==
    [bits EXCEPT ![tick \div WORD_BITS] =
        BitOr(@, ShiftLeft(1, tick % WORD_BITS))]

clear_bit(bits, tick) ==
    [bits EXCEPT ![tick \div WORD_BITS] =
        BitAnd(@, BitNot(ShiftLeft(1, tick % WORD_BITS)))]

test_bit(bits, tick) ==
    BitAnd(ShiftRight(bits[tick \div WORD_BITS], tick % WORD_BITS), 1) # 0

\* Mutant: the scan for the next ask stops at the end of the first word.
SweepUp_None(bits, w) == NO_PRICE

\* for (++w; w < WORDS; ++w) if (bits[w]) return ...; return NO_PRICE;
RECURSIVE SweepUp(_, _)
SweepUp(bits, w) ==
    IF w >= WORDS THEN NO_PRICE
    ELSE IF bits[w] # 0 THEN w * WORD_BITS + countr_zero(bits[w])
    ELSE SweepUp(bits, w + 1)

\* Find next ask >= from.
next_ask_from(E, from) ==
    LET w == from \div WORD_BITS
        b == from % WORD_BITS
    IN  IF w >= WORDS THEN NO_PRICE
        ELSE LET word == BitAnd(E.asks_bits_[w], ShiftLeftWord(AllOnes, b))
             IN  IF word # 0 THEN w * WORD_BITS + countr_zero(word)
                 ELSE SweepUp(E.asks_bits_, w + 1)

\* while (w--) { if (bits[w]) return ...; if (w == 0) break; } return NO_PRICE;
RECURSIVE SweepDown(_, _)
SweepDown(bits, w) ==
    IF w = 0 THEN NO_PRICE
    ELSE IF bits[w - 1] # 0
         THEN (w - 1) * WORD_BITS + ((WORD_BITS - 1) - countl_zero(bits[w - 1]))
    ELSE IF w - 1 = 0 THEN NO_PRICE
    ELSE SweepDown(bits, w - 1)

\* Find prev bid <= from.
prev_bid_from(E, from) ==
    LET w == from \div WORD_BITS
        b == from % WORD_BITS
    IN  IF w >= WORDS THEN NO_PRICE
        ELSE LET mask == IF b = WORD_BITS - 1 THEN AllOnes
                         ELSE ShiftLeft(1, b + 1) - 1
                 word == BitAnd(E.bids_bits_[w], mask)
             IN  IF word # 0
                 THEN w * WORD_BITS + ((WORD_BITS - 1) - countl_zero(word))
                 ELSE SweepDown(E.bids_bits_, w)

\* The level of a side at a tick: bids_[tick] for SIDE_BUY, else asks_[tick].
Level(E, side, tick) ==
    IF side = SIDE_BUY THEN E.bids_[tick] ELSE E.asks_[tick]

SetLevel(E, side, tick, lvl) ==
    IF side = SIDE_BUY THEN [E EXCEPT !.bids_[tick] = lvl]
    ELSE [E EXCEPT !.asks_[tick] = lvl]

\* clear_level(bits, best, emptied_tick), called with the bitset and the best
\* price of the same side: clear the bit; if the emptied tick was the best,
\* scan for the next one.
clear_level(E, side, emptied_tick) ==
    IF side = SIDE_BUY
    THEN LET E1 == [E EXCEPT !.bids_bits_ = clear_bit(@, emptied_tick)]
         IN  IF emptied_tick = E1.best_bid_
             THEN [E1 EXCEPT !.best_bid_ =
                      IF emptied_tick = 0 THEN prev_bid_from(E1, 0)
                      ELSE prev_bid_from(E1, emptied_tick - 1)]
             ELSE E1
    ELSE LET E1 == [E EXCEPT !.asks_bits_ = clear_bit(@, emptied_tick)]
         IN  IF emptied_tick = E1.best_ask_
             THEN [E1 EXCEPT !.best_ask_ = next_ask_from(E1, emptied_tick + 1)]
             ELSE E1

(* --------------------------- resting an order -------------------------- *)

Beats_OnlyEmpty(side, tick, best) == best = NO_PRICE

\* ensure_best_after_add: the tick replaces the cached best when there is
\* none or when it is better (greater for bids, lesser for asks).
Beats(side, tick, best) ==
    \/ best = NO_PRICE
    \/ IF side = SIDE_BUY THEN tick > best ELSE tick < best

ensure_best_after_add(E, side, tick) ==
    IF side = SIDE_BUY
    THEN IF Beats(side, tick, E.best_bid_) THEN [E EXCEPT !.best_bid_ = tick] ELSE E
    ELSE IF Beats(side, tick, E.best_ask_) THEN [E EXCEPT !.best_ask_ = tick] ELSE E

\* Mutant: the lowest free handle is taken, wherever the cursor stands.
ProbeHandle_Lowest(handles, id, n) ==
    CHOOSE h \in Slots : handles[h] = NIL /\ \A k \in Slots : handles[k] = NIL => h <= k

\* The probe for (;;) { if (handles_[id] == NIL) ...; id = (id + 1) % MAX_ORDERS; }
\* from id, having probed n slots.  A probe that has seen every slot taken
\* never ends; NIL stands for that.
RECURSIVE ProbeHandle(_, _, _)
ProbeHandle(handles, id, n) ==
    IF n >= MAX_ORDERS THEN NIL
    ELSE IF handles[id] = NIL THEN id
    ELSE ProbeHandle(handles, (id + 1) % MAX_ORDERS, n + 1)

RestedTotal_Twice(total_qty, qty) == Wrap32(total_qty + 2 * qty)

\* lvl.total_qty += qty
RestedTotal(total_qty, qty) == Wrap32(total_qty + qty)

\* enqueue_resting(side, price_tick, qty): allocate a node, assign a handle,
\* append at the tail of the level, mark occupancy and adjust the best price.
\* result is the handle, or NIL when the pool is exhausted.
enqueue_resting(E, side, price_tick, qty) ==
    LET a == alloc_node(E)
        idx == a.idx
    IN  IF idx = NIL THEN [E |-> a.E, result |-> NIL]
        ELSE
        LET id == ProbeHandle(a.E.handles_, a.E.next_handle_, 0)
            E1 == [a.E EXCEPT !.pool_[idx].price_tick = price_tick,
                              !.pool_[idx].qty = qty,
                              !.pool_[idx].side = side,
                              !.pool_[idx].id = id,
                              !.handles_[id] = idx,
                              !.next_handle_ = (id + 1) % MAX_ORDERS]
            lvl == Level(E1, side, price_tick)
            E2 == [E1 EXCEPT !.pool_[idx].prev_idx = lvl.tail,
                             !.pool_[idx].next_idx = NIL]
            E3 == IF lvl.tail # NIL
                  THEN [E2 EXCEPT !.pool_[lvl.tail].next_idx = idx]
                  ELSE E2
            lvl1 == [head      |-> IF lvl.tail # NIL THEN lvl.head ELSE idx,
                     tail      |-> idx,
                     total_qty |-> RestedTotal(lvl.total_qty, qty)]
            E4 == SetLevel(E3, side, price_tick, lvl1)
            E5 == IF side = SIDE_BUY
                  THEN [E4 EXCEPT !.bids_bits_ =
                           IF test_bit(@, price_tick) THEN @ ELSE set_bit(@, price_tick)]
                  ELSE [E4 EXCEPT !.asks_bits_ =
                           IF test_bit(@, price_tick) THEN @ ELSE set_bit(@, price_tick)]
        IN  [E |-> ensure_best_after_add(E5, side, price_tick), result |-> id]

(* ------------------------------- matching ------------------------------ *)

InvalidOrder_TickOnly(qty, price_tick) == price_tick >= MAX_TICKS

\* in.qty == 0 || in.price_tick >= MAX_TICKS
InvalidOrder(qty, price_tick) == qty = 0 \/ price_tick >= MAX_TICKS

IsIOC_Never(flags) == FALSE

\* in.flags & 0x1u
IsIOC(flags) == BitAnd(flags, 1) # 0

\* in.flags & 0x2u
IsFOK(flags) == BitAnd(flags, 2) # 0

NextMaker_Tail(lvl) == lvl.tail

\* uint32_t idx = lvl.head
NextMaker(lvl) == lvl.head

\* trade = (remaining < maker.qty) ? remaining : maker.qty
TradeQty(remaining, maker_qty) ==
    IF remaining < maker_qty THEN remaining ELSE maker_qty

VolumeAfter_Count(volume, trade) == volume + 1

\* total_volume_ += trade
VolumeAfter(volume, trade) == volume + trade

FilledHandleSlot_Kept(idx) == idx

\* handles_[maker.id] = NIL, when a maker is filled
FilledHandleSlot(idx) == NIL

\* The inner loop: while (remaining && lvl.head != NIL), on the level of the
\* makers' side at tick.  trades lists the trades made, for the history.
RECURSIVE MatchLevel(_, _, _, _, _)
MatchLevel(E, side, tick, remaining, trades) ==
    LET lvl == Level(E, side, tick)
    IN  IF remaining = 0 \/ lvl.head = NIL
        THEN [E |-> E, remaining |-> remaining, trades |-> trades]
        ELSE
        LET idx == NextMaker(lvl)
            maker == E.pool_[idx]
            trade == TradeQty(remaining, maker.qty)
            left == Wrap32(maker.qty - trade)
            E1 == [E EXCEPT !.pool_[idx].qty = left,
                            !.total_trades_ = @ + 1,
                            !.total_volume_ = VolumeAfter(@, trade)]
            lvl1 == [lvl EXCEPT !.total_qty = Wrap32(@ - trade)]
            lvl2 == IF left = 0
                    THEN [lvl1 EXCEPT !.head = maker.next_idx,
                                      !.tail = IF maker.next_idx # NIL THEN @ ELSE NIL]
                    ELSE lvl1
            E2 == SetLevel(E1, side, tick, lvl2)
            E3 == IF left = 0
                  THEN free_node(
                          [E2 EXCEPT
                              !.pool_ = IF maker.next_idx # NIL
                                        THEN [@ EXCEPT ![maker.next_idx].prev_idx = NIL]
                                        ELSE @,
                              !.handles_[maker.id] = FilledHandleSlot(idx)],
                          idx)
                  ELSE E2
            t == [idx |-> idx, id |-> maker.id, side |-> side, tick |-> tick,
                  qty |-> trade, maker_before |-> maker.qty, maker_after |-> left]
        IN  MatchLevel(E3, side, tick, Wrap32(remaining - trade), Append(trades, t))

\* The cached best price of a side.
Best(E, side) == IF side = SIDE_BUY THEN E.best_bid_ ELSE E.best_ask_

\* Mutant: no incoming order ever crosses.
Crosses_Never(E, side, price_tick) == FALSE

\* Mutant: an incoming order crosses whatever its price.
Crosses_AnyPrice(E, side, price_tick) == Best(E, side) # NO_PRICE

\* Mutant: a buyer crosses only asks strictly below its price.
Crosses_BuyStrict(E, side, price_tick) ==
    /\ Best(E, side) # NO_PRICE
    /\ IF side = SIDE_SELL THEN Best(E, side) < price_tick
       ELSE Best(E, side) >= price_tick

\* The price condition of the outer loop: best_ask_ <= price for a buyer
\* (makers are asks), best_bid_ >= price for a seller (makers are bids).
Crosses(E, side, price_tick) ==
    /\ Best(E, side) # NO_PRICE
    /\ IF side = SIDE_SELL THEN Best(E, side) <= price_tick
       ELSE Best(E, side) >= price_tick

\* The outer loop over the makers' side: match at the best tick; if its
\* level emptied, clear it and go on, else stop.
RECURSIVE MatchBook(_, _, _, _, _)
MatchBook(E, side, price_tick, remaining, trades) ==
    IF remaining = 0 \/ ~Crosses(E, side, price_tick)
    THEN [E |-> E, remaining |-> remaining, trades |-> trades]
    ELSE
    After(MatchLevel(E, side, Best(E, side), remaining, trades),
          LAMBDA m :
             IF Level(m.E, side, Best(E, side)).head = NIL
             THEN MatchBook(clear_level(m.E, side, Best(E, side)), side, price_tick,
                            m.remaining, m.trades)
             ELSE m)

\* add_limit(in): result is a handle on rest, DONE_FILL if fully executed,
\* NIL on reject.
add_limit(E, in) ==
    IF InvalidOrder(in.qty, in.price_tick)
    THEN [E |-> E, result |-> NIL, remaining |-> in.qty, trades |-> <<>>]
    ELSE
    LET own == IF in.side = SIDE_BUY THEN SIDE_BUY ELSE SIDE_SELL
        makers == IF in.side = SIDE_BUY THEN SIDE_SELL ELSE SIDE_BUY
    IN  After(MatchBook(E, makers, in.price_tick, in.qty, <<>>),
              LAMBDA m :
                 IF m.remaining # 0
                 THEN IF IsIOC(in.flags)
                      THEN [E |-> m.E, result |-> NIL,
                            remaining |-> m.remaining, trades |-> m.trades]
                      ELSE After(enqueue_resting(m.E, own, in.price_tick, m.remaining),
                                 LAMBDA r :
                                    [E |-> r.E, result |-> r.result,
                                     remaining |-> m.remaining, trades |-> m.trades])
                 ELSE [E |-> m.E, result |-> DONE_FILL,
                       remaining |-> 0, trades |-> m.trades])

(* -------------------------------- cancel ------------------------------- *)

CancelHandleSlot_Kept(idx) == idx

\* handles_[n.id] = NIL, when an order is cancelled
CancelHandleSlot(idx) == NIL

\* cancel(handle): result is TRUE if the order was cancelled.
cancel(E, handle) ==
    IF handle >= MAX_ORDERS THEN [E |-> E, result |-> FALSE]
    ELSE IF E.handles_[handle] = NIL THEN [E |-> E, result |-> FALSE]
    ELSE
    LET idx == E.handles_[handle]
        n == E.pool_[idx]
        side == IF n.side = SIDE_BUY THEN SIDE_BUY ELSE SIDE_SELL
        lvl == Level(E, side, n.price_tick)
        pool1 == IF n.prev_idx # NIL
                 THEN [E.pool_ EXCEPT ![n.prev_idx].next_idx = n.next_idx]
                 ELSE E.pool_
        pool2 == IF n.next_idx # NIL
                 THEN [pool1 EXCEPT ![n.next_idx].prev_idx = n.prev_idx]
                 ELSE pool1
        head1 == IF n.prev_idx # NIL THEN lvl.head ELSE n.next_idx
        tail1 == IF n.next_idx # NIL THEN lvl.tail ELSE n.prev_idx
        lvl1 == [head      |-> head1,
                 tail      |-> tail1,
                 total_qty |-> IF head1 = NIL THEN 0
                               ELSE Wrap32(lvl.total_qty - n.qty)]
        E1 == SetLevel([E EXCEPT !.pool_ = pool2], side, n.price_tick, lvl1)
        E2 == IF head1 = NIL THEN clear_level(E1, side, n.price_tick) ELSE E1
        E3 == [E2 EXCEPT !.handles_[n.id] = CancelHandleSlot(idx)]
    IN  [E |-> free_node(E3, idx), result |-> TRUE]

(* -------------------------------- replace ------------------------------ *)

ReplaceSide_Flipped(side) == 1 - side

\* const uint8_t side = pool_[idx].side, handed to the new order
ReplaceSide(side) == side

\* Mutant: only the range of the handle is validated.
ReplaceInvalid_HandleOnly(handle, new_tick, new_qty) == handle >= MAX_ORDERS

\* if (handle >= MAX_ORDERS || new_qty == 0 || new_tick >= MAX_TICKS)
ReplaceInvalid(handle, new_tick, new_qty) ==
    handle >= MAX_ORDERS \/ new_qty = 0 \/ new_tick >= MAX_TICKS

\* replace(handle, new_tick, new_qty): cancel the old order, add the new one
\* with the old side and no flags.
replace(E, handle, new_tick, new_qty) ==
    IF ReplaceInvalid(handle, new_tick, new_qty)
    THEN [E |-> E, result |-> NIL, remaining |-> new_qty, trades |-> <<>>]
    ELSE IF E.handles_[handle] = NIL
    THEN [E |-> E, result |-> NIL, remaining |-> new_qty, trades |-> <<>>]
    ELSE
    LET side == ReplaceSide(E.pool_[E.handles_[handle]].side)
    IN  After(cancel(E, handle),
              LAMBDA c : add_limit(c.E, [client_id |-> 0, price_tick |-> new_tick,
                                         qty |-> new_qty, side |-> side, flags |-> 0]))

(* ------------------------ calls on one engine -------------------------- *)

\* Arguments the callers hand to the engine: both sides, every tick and the
\* first one out of range, every quantity from 0, every combination of the
\* IOC and FOK bits, every handle in range, the first one out of range and
\* the two sentinels.
SideInputs == {SIDE_BUY, SIDE_SELL}
TickInputs == 0 .. MAX_TICKS
QtyInputs == 0 .. MaxQty
FlagInputs == 0 .. 3
HandleInputs == (0 .. MAX_ORDERS) \cup {DONE_FILL, NIL}

\* No engine call made yet.
NoCall ==
    [op |-> "none", side |-> 0, price_tick |-> 0, qty |-> 0, flags |-> 0,
     handle |-> 0, result |-> NIL, ok |-> FALSE, remaining |-> 0, trades |-> <<>>]

\* The slots holding a live order: those their handle points back to.
LiveSlots(E) ==
    {i \in Slots : E.pool_[i].id \in Slots /\ E.handles_[E.pool_[i].id] = i}

\* The history of resting: the slot of the order that a call returning
\* handle result has rested gets a stamp greater than the stamp of every
\* order still live; slots without a live order carry no stamp.
StampRested(E, result) ==
    LET kept == [i \in Slots |->
                    IF i \in LiveSlots(E) /\ ~(result < MAX_ORDERS /\ E.handles_[result] = i)
                    THEN restedAt[i] ELSE 0]
        newest == CHOOSE n \in {kept[i] : i \in Slots} :
                      \A i \in Slots : kept[i] <= n
    IN  [i \in Slots |->
            IF result < MAX_ORDERS /\ E.handles_[result] = i THEN newest + 1
            ELSE kept[i]]

NoEngineCalls ==
    /\ engine = NewEngine
    /\ call = NoCall
    /\ ncalls = 0
    /\ restedAt = [i \in Slots |-> 0]

\* The content of the messages (order fields, cancels) and the counters fed
\* from it are not followed: no cancels, nothing tracked, nothing counted.
NoFlow ==
    /\ cancel_every = 0
    /\ max_qty = 0
    /\ active_orders_per_worker = <<>>
    /\ emitted = <<>>
    /\ local_donefill = <<>> /\ local_cancels = <<>> /\ local_rejected = <<>>
    /\ synthetic_to_engine_handle = <<>>
    /\ engine_ = <<>>
    /\ handled = <<>>
    /\ stats_donefill = 0 /\ stats_cancels = 0 /\ stats_rejected = 0

\* The locals of a call of empty, full, size or available: the function
\* called, the position in it, the values of its first and second load, the
\* value it returns (a flag or a number); as history, the least and the
\* greatest tail_ - head_ the ring went through during the call.
NoObserver ==
    [fn |-> "none", pc |-> "idle", first |-> 0, second |-> 0,
     flag |-> FALSE, result |-> 0, minHeld |-> 0, maxHeld |-> 0]

\* The second engine, not called yet.
NoTwin == [E |-> NewEngine, result |-> NIL, ok |-> FALSE, trades |-> <<>>]

\* No thread is suspended, no thread calls the observers of the ring and
\* the second engine is not in use.
NoProbe ==
    /\ solo = {}
    /\ soloSteps = 0
    /\ obs = NoObserver
    /\ twin = NoTwin

\* A caller calls add_limit(in).
E_AddLimit ==
    /\ ncalls < MaxCalls
    /\ call = NoCall
    /\ \E side \in SideInputs, tick \in TickInputs, qty \in QtyInputs, flags \in FlagInputs :
          LET in == [client_id |-> 0, price_tick |-> tick, qty |-> qty,
                     side |-> side, flags |-> flags]
              r == add_limit(engine, in)
          IN  /\ engine' = r.E
              /\ call' = [NoCall EXCEPT !.op = "add_limit", !.side = side,
                                        !.price_tick = tick, !.qty = qty,
                                        !.flags = flags, !.result = r.result,
                                        !.remaining = r.remaining,
                                        !.trades = r.trades]
              /\ restedAt' = StampRested(r.E, r.result)
    /\ ncalls' = ncalls + 1
    /\ UNCHANGED <<ringVars, threadVars, histVars, genVars, workerVars, sharedVars, flowVars, ctorVars, probeVars, twinVars>>

\* A caller calls cancel(handle).
E_Cancel ==
    /\ ncalls < MaxCalls
    /\ call = NoCall
    /\ \E handle \in HandleInputs :
          LET r == cancel(engine, handle)
          IN  /\ engine' = r.E
              /\ call' = [NoCall EXCEPT !.op = "cancel", !.handle = handle,
                                        !.ok = r.result]
              /\ restedAt' = StampRested(r.E, NIL)
    /\ ncalls' = ncalls + 1
    /\ UNCHANGED <<ringVars, threadVars, histVars, genVars, workerVars, sharedVars, flowVars, ctorVars, probeVars, twinVars>>

\* A caller calls replace(handle, new_tick, new_qty).
E_Replace ==
    /\ ncalls < MaxCalls
    /\ call = NoCall
    /\ \E handle \in HandleInputs, tick \in TickInputs, qty \in QtyInputs :
          LET r == replace(engine, handle, tick, qty)
          IN  /\ engine' = r.E
              /\ call' = [NoCall EXCEPT !.op = "replace", !.handle = handle,
                                        !.price_tick = tick, !.qty = qty,
                                        !.result = r.result,
                                        !.remaining = r.remaining,
                                        !.trades = r.trades]
              /\ restedAt' = StampRested(r.E, r.result)
    /\ ncalls' = ncalls + 1
    /\ UNCHANGED <<ringVars, threadVars, histVars, genVars, workerVars, sharedVars, flowVars, ctorVars, probeVars, twinVars>>

\* A caller calls reset().
E_Reset ==
    /\ ncalls < MaxCalls
    /\ call = NoCall
    /\ engine' = reset(engine)
    /\ call' = [NoCall EXCEPT !.op = "reset"]
    /\ restedAt' = [i \in Slots |-> 0]
    /\ ncalls' = ncalls + 1
    /\ UNCHANGED <<ringVars, threadVars, histVars, genVars, workerVars, sharedVars, flowVars, ctorVars, probeVars, twinVars>>

\* The caller has taken the result of its call and is ready for the next.
E_Return ==
    /\ call # NoCall
    /\ call' = NoCall
    /\ UNCHANGED <<engine, ncalls, restedAt>>
    /\ UNCHANGED <<ringVars, threadVars, histVars, genVars, workerVars, sharedVars, flowVars, ctorVars, probeVars, twinVars>>

(* ------------------------- ring-only harness --------------------------- *)

\* The thread sets of the ring-only specifications: one producer and one
\* consumer (SPSC), or two producers and two consumers (MPMC).
RolesSPSC == [t \in 0 .. 1 |-> IF t = 0 THEN "producer" ELSE "consumer"]
RolesMPMC == [t \in 0 .. 3 |-> IF t <= 1 THEN "producer" ELSE "consumer"]

\* The producer and the workers do not run in the ring-only specifications.
NoSystem ==
    /\ num_orders = 0
    /\ done_ = FALSE
    /\ stats_generated = 0 /\ stats_pushed = 0 /\ stats_popped = 0
    /\ gpc = "exit" /\ gi = 0 /\ cur_worker_ = 0
    /\ generated = 0 /\ pushed = 0 /\ retry_count = 0
    /\ wpc = <<>> /\ emptyH = <<>> /\ batch = <<>>
    /\ local_popped = <<>> /\ total_processed = <<>>

InitRing ==
    /\ NewRings({0}, RingSize)
    /\ \E roles \in {RolesSPSC, RolesMPMC} : InitThreads(roles)
    /\ InitHist({0})
    /\ NoSystem
    /\ NoEngineCalls
    /\ NoFlow
    /\ NoProbe

NextRing ==
    \/ \E t \in DOMAIN role : CallPush(t) /\ UNCHANGED sysVars
    \/ \E t \in DOMAIN role : CallPushAgain(t) /\ UNCHANGED sysVars
    \/ \E t \in DOMAIN role : PushLoadSeq(t) /\ UNCHANGED sysVars
    \/ \E t \in DOMAIN role : PushReload(t) /\ UNCHANGED sysVars
    \/ \E t \in DOMAIN role : PushCas(t) /\ UNCHANGED sysVars
    \/ \E t \in DOMAIN role : PushCasSpurious(t) /\ UNCHANGED sysVars
    \/ \E t \in DOMAIN role : PushWrite(t) /\ UNCHANGED sysVars
    \/ \E t \in DOMAIN role : PushStore(t) /\ UNCHANGED sysVars
    \/ \E t \in DOMAIN role : CallPop(t) /\ UNCHANGED sysVars
    \/ \E t \in DOMAIN role : PopLoadSeq(t) /\ UNCHANGED sysVars
    \/ \E t \in DOMAIN role : PopReload(t) /\ UNCHANGED sysVars
    \/ \E t \in DOMAIN role : PopCas(t) /\ UNCHANGED sysVars
    \/ \E t \in DOMAIN role : PopCasSpurious(t) /\ UNCHANGED sysVars
    \/ \E t \in DOMAIN role : PopRead(t) /\ UNCHANGED sysVars
    \/ \E t \in DOMAIN role : PopStore(t) /\ UNCHANGED sysVars

SpecRing == InitRing /\ [][NextRing]_vars

(* ---------------- harness: rings of every requested size --------------- *)

\* The requested sizes: every value of size_t.
SizeInputs == 0 .. (SizeMod - 1)

\* A caller calls push on a ring that has cells; the callers of a run make
\* capacity_ + 1 calls with new items.  (On a ring without cells push and
\* pop would access buffer_[0] outside the allocation; it is not called.)
CallPushSized(t) ==
    /\ Cells # {}
    /\ role[t] = "producer"
    /\ pc[t] # "push_false"
    /\ nextItem <= capacity_
    /\ nextItem' = nextItem + 1
    /\ PushEnter(t, 0, [client_id |-> nextItem + 1, worker_id |-> 0])
    /\ UNCHANGED <<ringVars, role, pushedLog, poppedLog>>

\* A caller calls pop on a ring that has cells.
CallPopSized(t) ==
    /\ Cells # {}
    /\ CallPop(t)

\* One ring constructed with any requested size, with one producer and one
\* consumer; the ring of requested size RingSize also with two and two.
InitSized ==
    /\ \E n \in SizeInputs : NewRings({0}, n)
    /\ \E roles \in {RolesSPSC, RolesMPMC} :
          /\ roles = RolesMPMC => size = RingSize
          /\ InitThreads(roles)
    /\ InitHist({0})
    /\ NoSystem
    /\ NoEngineCalls
    /\ NoFlow
    /\ NoProbe

NextSized ==
    \/ \E t \in DOMAIN role : CallPushSized(t) /\ UNCHANGED sysVars
    \/ \E t \in DOMAIN role : CallPushAgain(t) /\ UNCHANGED sysVars
    \/ \E t \in DOMAIN role : PushLoadSeq(t) /\ UNCHANGED sysVars
    \/ \E t \in DOMAIN role : PushReload(t) /\ UNCHANGED sysVars
    \/ \E t \in DOMAIN role : PushCas(t) /\ UNCHANGED sysVars
    \/ \E t \in DOMAIN role : PushCasSpurious(t) /\ UNCHANGED sysVars
    \/ \E t \in DOMAIN role : PushWrite(t) /\ UNCHANGED sysVars
    \/ \E t \in DOMAIN role : PushStore(t) /\ UNCHANGED sysVars
    \/ \E t \in DOMAIN role : CallPopSized(t) /\ UNCHANGED sysVars
    \/ \E t \in DOMAIN role : PopLoadSeq(t) /\ UNCHANGED sysVars
    \/ \E t \in DOMAIN role : PopReload(t) /\ UNCHANGED sysVars
    \/ \E t \in DOMAIN role : PopCas(t) /\ UNCHANGED sysVars
    \/ \E t \in DOMAIN role : PopCasSpurious(t) /\ UNCHANGED sysVars
    \/ \E t \in DOMAIN role : PopRead(t) /\ UNCHANGED sysVars
    \/ \E t \in DOMAIN role : PopStore(t) /\ UNCHANGED sysVars

SpecSized == InitSized /\ [][NextSized]_vars

(* ------------- harness: threads suspended in mid-operation ------------- *)

\* The steps a thread takes alone, from the moment every other thread is
\* suspended or from its call, whichever is later, before its push or pop
\* has returned: at most one stale pass (seq load, then reload or failed
\* CAS), then seq load, CAS, memcpy and seq store.
SOLO_STEPS == 6

\* Everything but the rings, the threads on them, their history and the
\* count of solo steps.
aloneVars == <<genVars, workerVars, sharedVars, engineVars, flowVars, ctorVars, solo, obs, twinVars>>

\* Every thread but t is suspended for good, wherever it is in its push or
\* pop; t goes on alone.
SuspendOthers(t) ==
    /\ solo = {}
    /\ solo' = {t}
    /\ soloSteps' = 0
    /\ UNCHANGED <<ringVars, threadVars, histVars>>
    /\ UNCHANGED <<genVars, workerVars, sharedVars, engineVars, flowVars, ctorVars, obs, twinVars>>

\* The thread left running calls push or pop.
SoloCall(t) ==
    /\ solo = {t}
    /\ CallPush(t) \/ CallPushAgain(t) \/ CallPop(t)
    /\ soloSteps' = 1
    /\ UNCHANGED aloneVars

\* The thread left running takes the next step of its push or pop.  (A CAS
\* fails spuriously only now and then; alone, the thread is taken not to
\* meet such a failure.)
SoloStep(t) ==
    /\ solo = {t}
    /\ soloSteps < SOLO_STEPS
    /\ PushStep(t) \/ PopStep(t)
    /\ soloSteps' = soloSteps + 1
    /\ UNCHANGED aloneVars

InitSolo == InitRing

NextSolo ==
    \/ \E t \in DOMAIN role : solo = {} /\ CallPush(t) /\ UNCHANGED sysVars
    \/ \E t \in DOMAIN role : solo = {} /\ CallPushAgain(t) /\ UNCHANGED sysVars
    \/ \E t \in DOMAIN role : solo = {} /\ PushLoadSeq(t) /\ UNCHANGED sysVars
    \/ \E t \in DOMAIN role : solo = {} /\ PushReload(t) /\ UNCHANGED sysVars
    \/ \E t \in DOMAIN role : solo = {} /\ PushCas(t) /\ UNCHANGED sysVars
    \/ \E t \in DOMAIN role : solo = {} /\ PushCasSpurious(t) /\ UNCHANGED sysVars
    \/ \E t \in DOMAIN role : solo = {} /\ PushWrite(t) /\ UNCHANGED sysVars
    \/ \E t \in DOMAIN role : solo = {} /\ PushStore(t) /\ UNCHANGED sysVars
    \/ \E t \in DOMAIN role : solo = {} /\ CallPop(t) /\ UNCHANGED sysVars
    \/ \E t \in DOMAIN role : solo = {} /\ PopLoadSeq(t) /\ UNCHANGED sysVars
    \/ \E t \in DOMAIN role : solo = {} /\ PopReload(t) /\ UNCHANGED sysVars
    \/ \E t \in DOMAIN role : solo = {} /\ PopCas(t) /\ UNCHANGED sysVars
    \/ \E t \in DOMAIN role : solo = {} /\ PopCasSpurious(t) /\ UNCHANGED sysVars
    \/ \E t \in DOMAIN role : solo = {} /\ PopRead(t) /\ UNCHANGED sysVars
    \/ \E t \in DOMAIN role : solo = {} /\ PopStore(t) /\ UNCHANGED sysVars
    \/ \E t \in DOMAIN role : SuspendOthers(t)
    \/ \E t \in DOMAIN role : SoloCall(t)
    \/ \E t \in DOMAIN role : SoloStep(t)

SpecSolo == InitSolo /\ [][NextSolo]_vars

(* ------------- harness: a thread calling the ring's observers ---------- *)

\* tail_ - head_ of ring 0.
Held == tail_[0] - head_[0]

\* Entry of an observer and its first load: head_ for empty(), tail_ for
\* full(), size() and available() (which calls size()).
ObserverFirstLoad(fn, loaded) ==
    /\ obs.pc # "second"
    /\ obs' = [NoObserver EXCEPT !.fn = fn, !.pc = "second", !.first = loaded,
                                 !.minHeld = Held, !.maxHeld = Held]
    /\ UNCHANGED <<ringVars, threadVars, histVars>>
    /\ UNCHANGED <<genVars, workerVars, sharedVars, engineVars, flowVars, ctorVars, solo, soloSteps, twinVars>>

\* The second load of an observer and its return.
ObserverSecondLoad(fn, loaded, flag, result) ==
    /\ obs.pc = "second"
    /\ obs.fn = fn
    /\ obs' = [obs EXCEPT !.pc = "done", !.second = loaded,
                          !.flag = flag, !.result = result]
    /\ UNCHANGED <<ringVars, threadVars, histVars>>
    /\ UNCHANGED <<genVars, workerVars, sharedVars, engineVars, flowVars, ctorVars, solo, soloSteps, twinVars>>

\* empty(): h = head_.load(acquire) ...
empty_LoadHead == ObserverFirstLoad("empty", head_[0])
\* ... t = tail_.load(acquire); return h == t
empty_LoadTail == ObserverSecondLoad("empty", tail_[0], obs.first = tail_[0], 0)

\* Mutant: full() compares the difference as a signed number.
FullResult_Signed(t, h) == t - h >= capacity_

\* return (t - h) >= capacity_, in size_t
FullResult(t, h) == WrapSize(t - h) >= capacity_

\* full(): t = tail_.load(acquire) ...
full_LoadTail == ObserverFirstLoad("full", tail_[0])
\* ... h = head_.load(acquire); return (t - h) >= capacity_
full_LoadHead == ObserverSecondLoad("full", head_[0], FullResult(obs.first, head_[0]), 0)

\* size(): t = tail_.load(acquire) ...
size_LoadTail == ObserverFirstLoad("size", tail_[0])
\* ... h = head_.load(acquire); return t - h
size_LoadHead == ObserverSecondLoad("size", head_[0], FALSE, WrapSize(obs.first - head_[0]))

\* available(): return capacity_ - size()
available_LoadTail == ObserverFirstLoad("available", tail_[0])
available_LoadHead ==
    ObserverSecondLoad("available", head_[0], FALSE,
                       WrapSize(capacity_ - WrapSize(obs.first - head_[0])))

\* History: the ring's tail_ - head_ after a step, folded into the least and
\* greatest value seen by the observer call in progress.
Watched ==
    /\ obs' = IF obs.pc = "second"
              THEN [obs EXCEPT
                      !.minHeld = IF tail_'[0] - head_'[0] < @ THEN tail_'[0] - head_'[0] ELSE @,
                      !.maxHeld = IF tail_'[0] - head_'[0] > @ THEN tail_'[0] - head_'[0] ELSE @]
              ELSE obs
    /\ UNCHANGED <<genVars, workerVars, sharedVars, engineVars, flowVars, ctorVars, solo, soloSteps, twinVars>>

\* One ring with one producer and one consumer, and the observing thread.
InitObs ==
    /\ NewRings({0}, RingSize)
    /\ InitThreads(RolesSPSC)
    /\ InitHist({0})
    /\ NoSystem
    /\ NoEngineCalls
    /\ NoFlow
    /\ NoProbe

\* With one producer and one consumer the branch dif > 0 of push and pop is
\* never taken, so the two reloads are not among the steps.
NextObs ==
    \/ \E t \in DOMAIN role : CallPush(t) /\ UNCHANGED sysVars
    \/ \E t \in DOMAIN role : CallPushAgain(t) /\ UNCHANGED sysVars
    \/ \E t \in DOMAIN role : PushLoadSeq(t) /\ UNCHANGED sysVars
    \/ \E t \in DOMAIN role : PushCas(t) /\ Watched
    \/ \E t \in DOMAIN role : PushCasSpurious(t) /\ UNCHANGED sysVars
    \/ \E t \in DOMAIN role : PushWrite(t) /\ UNCHANGED sysVars
    \/ \E t \in DOMAIN role : PushStore(t) /\ UNCHANGED sysVars
    \/ \E t \in DOMAIN role : CallPop(t) /\ UNCHANGED sysVars
    \/ \E t \in DOMAIN role : PopLoadSeq(t) /\ UNCHANGED sysVars
    \/ \E t \in DOMAIN role : PopCas(t) /\ Watched
    \/ \E t \in DOMAIN role : PopCasSpurious(t) /\ UNCHANGED sysVars
    \/ \E t \in DOMAIN role : PopRead(t) /\ UNCHANGED sysVars
    \/ \E t \in DOMAIN role : PopStore(t) /\ UNCHANGED sysVars
    \/ empty_LoadHead
    \/ empty_LoadTail
    \/ full_LoadTail
    \/ full_LoadHead
    \/ size_LoadTail
    \/ size_LoadHead
    \/ available_LoadTail
    \/ available_LoadHead

SpecObs == InitObs /\ [][NextObs]_vars

\* One engine, called by one thread; no ring, no producer, no worker.
InitEngine ==
    /\ NewRings({}, RingSize)
    /\ InitThreads(<<>>)
    /\ InitHist({})
    /\ NoSystem
    /\ NoEngineCalls
    /\ NoFlow
    /\ NoProbe

NextEngine ==
    \/ E_AddLimit
    \/ E_Cancel
    \/ E_Replace
    \/ E_Reset
    \/ E_Return

SpecEngine == InitEngine /\ [][NextEngine]_vars

\* The same engine called with quantities from the whole uint32_t range: the
\* least one, half the range and the greatest one, so that the sum of the
\* quantities resting on one level passes the width of total_qty.
BigQtyInputs == {1, UintMod \div 2, UintMod - 1}

\* A caller calls add_limit(in) with a valid tick and such a quantity.
E_AddLimitBig ==
    /\ ncalls < MaxCalls
    /\ call = NoCall
    /\ \E side \in SideInputs, tick \in Ticks, qty \in BigQtyInputs, flags \in {0, 1} :
          LET in == [client_id |-> 0, price_tick |-> tick, qty |-> qty,
                     side |-> side, flags |-> flags]
              r == add_limit(engine, in)
          IN  /\ engine' = r.E
              /\ call' = [NoCall EXCEPT !.op = "add_limit", !.side = side,
                                        !.price_tick = tick, !.qty = qty,
                                        !.flags = flags, !.result = r.result,
                                        !.remaining = r.remaining,
                                        !.trades = r.trades]
              /\ restedAt' = StampRested(r.E, r.result)
    /\ ncalls' = ncalls + 1
    /\ UNCHANGED <<ringVars, threadVars, histVars, genVars, workerVars, sharedVars, flowVars, ctorVars, probeVars, twinVars>>

\* A caller calls replace(handle, new_tick, new_qty) with such a quantity.
E_ReplaceBig ==
    /\ ncalls < MaxCalls
    /\ call = NoCall
    /\ \E handle \in Slots, tick \in Ticks, qty \in BigQtyInputs :
          LET r == replace(engine, handle, tick, qty)
          IN  /\ engine' = r.E
              /\ call' = [NoCall EXCEPT !.op = "replace", !.handle = handle,
                                        !.price_tick = tick, !.qty = qty,
                                        !.result = r.result,
                                        !.remaining = r.remaining,
                                        !.trades = r.trades]
              /\ restedAt' = StampRested(r.E, r.result)
    /\ ncalls' = ncalls + 1
    /\ UNCHANGED <<ringVars, threadVars, histVars, genVars, workerVars, sharedVars, flowVars, ctorVars, probeVars, twinVars>>

NextEngineBig ==
    \/ E_AddLimitBig
    \/ E_Cancel
    \/ E_ReplaceBig
    \/ E_Reset
    \/ E_Return

SpecEngineBig == InitEngine /\ [][NextEngineBig]_vars

(* ------------- harness: two engines fed mirrored calls ----------------- *)

\* The tick MAX_TICKS - 1 - t, computed in uint32_t.
MirrorTick(t) == Wrap32(MAX_TICKS - 1 - t)

\* The other side.
MirrorSide(side) == IF side = SIDE_BUY THEN SIDE_SELL ELSE SIDE_BUY

\* The result of a call on the second engine, for the history.
TwinOf(r) == [E |-> r.E, result |-> r.result, ok |-> FALSE, trades |-> r.trades]

\* add_limit(in) on the first engine and add_limit of the mirrored order on
\* the second.
M_AddLimit ==
    /\ ncalls < MaxCalls
    /\ call = NoCall
    /\ \E side \in SideInputs, tick \in TickInputs, qty \in QtyInputs, flags \in FlagInputs :
          LET in == [client_id |-> 0, price_tick |-> tick, qty |-> qty,
                     side |-> side, flags |-> flags]
              r == add_limit(engine, in)
          IN  /\ engine' = r.E
              /\ call' = [NoCall EXCEPT !.op = "add_limit", !.side = side,
                                        !.price_tick = tick, !.qty = qty,
                                        !.flags = flags, !.result = r.result,
                                        !.remaining = r.remaining,
                                        !.trades = r.trades]
              /\ restedAt' = StampRested(r.E, r.result)
              /\ twin' = TwinOf(add_limit(twin.E,
                                   [in EXCEPT !.side = MirrorSide(side),
                                              !.price_tick = MirrorTick(tick)]))
    /\ ncalls' = ncalls + 1
    /\ UNCHANGED <<ringVars, threadVars, histVars, genVars, workerVars, sharedVars, flowVars, ctorVars, probeVars>>

\* cancel(handle) on both engines.
M_Cancel ==
    /\ ncalls < MaxCalls
    /\ call = NoCall
    /\ \E handle \in HandleInputs :
          LET r == cancel(engine, handle)
              r2 == cancel(twin.E, handle)
          IN  /\ engine' = r.E
              /\ call' = [NoCall EXCEPT !.op = "cancel", !.handle = handle,
                                        !.ok = r.result]
              /\ restedAt' = StampRested(r.E, NIL)
              /\ twin' = [E |-> r2.E, result |-> NIL, ok |-> r2.result, trades |-> <<>>]
    /\ ncalls' = ncalls + 1
    /\ UNCHANGED <<ringVars, threadVars, histVars, genVars, workerVars, sharedVars, flowVars, ctorVars, probeVars>>

\* replace(handle, new_tick, new_qty) on the first engine and replace to the
\* mirrored tick on the second.
M_Replace ==
    /\ ncalls < MaxCalls
    /\ call = NoCall
    /\ \E handle \in HandleInputs, tick \in TickInputs, qty \in QtyInputs :
          LET r == replace(engine, handle, tick, qty)
          IN  /\ engine' = r.E
              /\ call' = [NoCall EXCEPT !.op = "replace", !.handle = handle,
                                        !.price_tick = tick, !.qty = qty,
                                        !.result = r.result,
                                        !.remaining = r.remaining,
                                        !.trades = r.trades]
              /\ restedAt' = StampRested(r.E, r.result)
              /\ twin' = TwinOf(replace(twin.E, handle, MirrorTick(tick), qty))
    /\ ncalls' = ncalls + 1
    /\ UNCHANGED <<ringVars, threadVars, histVars, genVars, workerVars, sharedVars, flowVars, ctorVars, probeVars>>

\* The caller has taken the results of the two calls.
M_Return ==
    /\ call # NoCall
    /\ call' = NoCall
    /\ twin' = [NoTwin EXCEPT !.E = twin.E]
    /\ UNCHANGED <<engine, ncalls, restedAt>>
    /\ UNCHANGED <<ringVars, threadVars, histVars, genVars, workerVars, sharedVars, flowVars, ctorVars, probeVars>>

InitMirror == InitEngine

NextMirror ==
    \/ M_AddLimit
    \/ M_Cancel
    \/ M_Replace
    \/ M_Return

SpecMirror == InitMirror /\ [][NextMirror]_vars


(* ------------------- OrderGenerator::operator() ------------------------ *)

NumRings == Cardinality(DOMAIN head_)

\* Mutant: the cursor wraps one step late (cur_worker_ > rings_.size()).
NextCursor_WrapLate(c, n) == IF c + 1 > n THEN 0 ELSE c + 1

\* cur_worker_++; if (cur_worker_ >= rings_.size()) cur_worker_ = 0;
NextCursor(c, n) == IF c + 1 >= n THEN 0 ELSE c + 1

\* retry_count++; below the limit the producer pauses, at the limit it
\* yields and resets retry_count.
NextRetry(r) == IF r + 1 < SPIN_LIMIT THEN r + 1 ELSE 0

\* Mutant: the loop stops one message early.
MoreOrders_OneShort(i, n) == i + 1 < n

\* for (uint64_t i = 0; i < cfg_.num_orders; ++i)
MoreOrders(i, n) == i < n

\* One loop iteration up to the first access of push: the message is built,
\* the round-robin cursor advances, ++generated, and push is entered on
\* rings_[target_worker % rings_.size()].
G_Iterate ==
    /\ gpc = "loop"
    /\ MoreOrders(gi, num_orders)
    /\ LET target_worker == cur_worker_
           msg == [client_id |-> gi + 1, worker_id |-> target_worker]
       IN  /\ cur_worker_' = NextCursor(cur_worker_, NumRings)
           /\ PushEnter(0, target_worker % NumRings, msg)
    /\ generated' = generated + 1
    /\ retry_count' = 0
    /\ gpc' = "pushing"
    /\ UNCHANGED <<ringVars, role, pushedLog, poppedLog, nextItem>>
    /\ UNCHANGED <<gi, pushed, workerVars, sharedVars>>
    /\ UNCHANGED <<engineVars, flowVars, ctorVars, probeVars, twinVars>>

\* while (!target->push(msg)): push returned false; back off and call again.
G_PushFailed ==
    /\ gpc = "pushing"
    /\ pc[0] = "push_false"
    /\ retry_count' = NextRetry(retry_count)
    /\ PushEnter(0, rq[0], item[0])
    /\ UNCHANGED <<ringVars, role, pushedLog, poppedLog, nextItem>>
    /\ UNCHANGED <<gpc, gi, cur_worker_, generated, pushed, workerVars, sharedVars>>
    /\ UNCHANGED <<engineVars, flowVars, ctorVars, probeVars, twinVars>>

\* push returned true: ++pushed; ++i.
G_PushOk ==
    /\ gpc = "pushing"
    /\ pc[0] = "push_true"
    /\ pushed' = pushed + 1
    /\ gi' = gi + 1
    /\ gpc' = "loop"
    /\ UNCHANGED <<ringVars, threadVars, histVars>>
    /\ UNCHANGED <<cur_worker_, generated, retry_count, workerVars, sharedVars>>
    /\ UNCHANGED <<engineVars, flowVars, ctorVars, probeVars, twinVars>>

\* stats_.generated.store(generated, release)
G_StoreGenerated ==
    /\ gpc = "loop"
    /\ ~MoreOrders(gi, num_orders)
    /\ stats_generated' = generated
    /\ gpc' = "store_pushed"
    /\ UNCHANGED <<ringVars, threadVars, histVars, workerVars>>
    /\ UNCHANGED <<gi, cur_worker_, generated, pushed, retry_count>>
    /\ UNCHANGED <<num_orders, done_, stats_pushed, stats_popped>>
    /\ UNCHANGED <<engineVars, flowVars, ctorVars, probeVars, twinVars>>

\* stats_.pushed.store(pushed, release)
G_StorePushed ==
    /\ gpc = "store_pushed"
    /\ stats_pushed' = pushed
    /\ gpc' = "store_done"
    /\ UNCHANGED <<ringVars, threadVars, histVars, workerVars>>
    /\ UNCHANGED <<gi, cur_worker_, generated, pushed, retry_count>>
    /\ UNCHANGED <<num_orders, done_, stats_generated, stats_popped>>
    /\ UNCHANGED <<engineVars, flowVars, ctorVars, probeVars, twinVars>>

\* done_.store(true, release)
G_StoreDone ==
    /\ gpc = "store_done"
    /\ done_' = TRUE
    /\ gpc' = "exit"
    /\ UNCHANGED <<ringVars, threadVars, histVars, workerVars>>
    /\ UNCHANGED <<gi, cur_worker_, generated, pushed, retry_count>>
    /\ UNCHANGED <<num_orders, stats_generated, stats_pushed, stats_popped>>
    /\ UNCHANGED <<engineVars, flowVars, ctorVars, probeVars, twinVars>>

(* ------------------- MatchingWorker::operator() ------------------------ *)

Workers == DOMAIN wpc

\* Worker w runs as thread w + 1 on ring w (main: workers[i] gets *rings[i]).
ThreadOf(w) == w + 1

\* Mutant: the worker leaves as soon as it sees the done flag.
EmptyResult_Always(h, t) == TRUE

\* AtomicRingBuffer::empty: return h == t
EmptyResult(h, t) == h = t

\* Mutant: the counters are flushed only above the threshold.
FlushDue_Never(n) == FALSE

\* if (local_popped >= 50000), with the threshold scaled down
FlushDue(n) == n >= FLUSH_EVERY

\* Mutant: the final update adds nothing.
FinalAdd_Nothing(n) == 0

\* The final stats_.popped.fetch_add(local_popped, relaxed) after the loop.
FinalAdd(n) == n

\* Top of the loop: if (done_.load(acquire)); when not set, popBatch starts.
W_LoadDone(w) ==
    /\ wpc[w] = "top"
    /\ wpc' = [wpc EXCEPT ![w] = IF done_ THEN "top_empty_h" ELSE "batch"]
    /\ batch' = [batch EXCEPT ![w] = <<>>]
    /\ UNCHANGED <<ringVars, threadVars, histVars, genVars, sharedVars>>
    /\ UNCHANGED <<emptyH, local_popped, total_processed>>
    /\ UNCHANGED <<engineVars, flowVars, ctorVars, probeVars, twinVars>>

\* ring_.empty(): size_t h = head_.load(acquire)
W_EmptyHead(w) ==
    /\ wpc[w] \in {"top_empty_h", "zero_empty_h"}
    /\ emptyH' = [emptyH EXCEPT ![w] = head_[w]]
    /\ wpc' = [wpc EXCEPT ![w] = IF wpc[w] = "top_empty_h" THEN "top_empty_t"
                                  ELSE "zero_empty_t"]
    /\ UNCHANGED <<ringVars, threadVars, histVars, genVars, sharedVars>>
    /\ UNCHANGED <<batch, local_popped, total_processed>>
    /\ UNCHANGED <<engineVars, flowVars, ctorVars, probeVars, twinVars>>

\* ring_.empty(): size_t t = tail_.load(acquire); return h == t.  At the top
\* of the loop an empty ring breaks out, otherwise popBatch starts; after an
\* empty batch an empty ring breaks out, otherwise _mm_pause(); continue.
W_EmptyTail(w) ==
    /\ wpc[w] \in {"top_empty_t", "zero_empty_t"}
    /\ wpc' = [wpc EXCEPT ![w] =
                  IF EmptyResult(emptyH[w], tail_[w]) THEN "final"
                  ELSE IF wpc[w] = "top_empty_t" THEN "batch" ELSE "top"]
    /\ emptyH' = [emptyH EXCEPT ![w] = 0]
    /\ UNCHANGED <<ringVars, threadVars, histVars, genVars, sharedVars>>
    /\ UNCHANGED <<batch, local_popped, total_processed>>
    /\ UNCHANGED <<engineVars, flowVars, ctorVars, probeVars, twinVars>>

\* popBatch: for (i = 0; i < max_count; ++i) if (!pop(items[i])) break;
\* the call of pop while fewer than BATCH_SIZE items are stored.
W_BatchPop(w) ==
    /\ wpc[w] = "batch"
    /\ Len(batch[w]) < BATCH_SIZE
    /\ PopEnter(ThreadOf(w), w)
    /\ wpc' = [wpc EXCEPT ![w] = "popping"]
    /\ UNCHANGED <<ringVars, role, item, pushedLog, poppedLog, nextItem>>
    /\ UNCHANGED <<genVars, sharedVars, emptyH, batch, local_popped, total_processed>>
    /\ UNCHANGED <<engineVars, flowVars, ctorVars, probeVars, twinVars>>

\* pop returned true: the item is in items[i]; popped++.
W_PopOk(w) ==
    /\ wpc[w] = "popping"
    /\ pc[ThreadOf(w)] = "pop_true"
    /\ batch' = [batch EXCEPT ![w] = Append(@, item[ThreadOf(w)])]
    /\ wpc' = [wpc EXCEPT ![w] = "batch"]
    /\ UNCHANGED <<ringVars, threadVars, histVars, genVars, sharedVars>>
    /\ UNCHANGED <<emptyH, local_popped, total_processed>>
    /\ UNCHANGED <<engineVars, flowVars, ctorVars, probeVars, twinVars>>

\* popBatch returns: pop returned false, or max_count items are stored.  An
\* empty batch goes to the second exit test, a non-empty one is processed.
W_BatchDone(w) ==
    /\ \/ wpc[w] = "popping" /\ pc[ThreadOf(w)] = "pop_false"
       \/ wpc[w] = "batch" /\ Len(batch[w]) >= BATCH_SIZE
    /\ wpc' = [wpc EXCEPT ![w] = IF Len(batch[w]) = 0 THEN "zero_done" ELSE "process"]
    /\ UNCHANGED <<ringVars, threadVars, histVars, genVars, sharedVars>>
    /\ UNCHANGED <<emptyH, batch, local_popped, total_processed>>
    /\ UNCHANGED <<engineVars, flowVars, ctorVars, probeVars, twinVars>>

\* if (batch_size == 0): done_.load(acquire) && ring_.empty(); when the flag
\* is not set: _mm_pause(); continue.
W_ZeroLoadDone(w) ==
    /\ wpc[w] = "zero_done"
    /\ wpc' = [wpc EXCEPT ![w] = IF done_ THEN "zero_empty_h" ELSE "top"]
    /\ UNCHANGED <<ringVars, threadVars, histVars, genVars, sharedVars>>
    /\ UNCHANGED <<emptyH, batch, local_popped, total_processed>>
    /\ UNCHANGED <<engineVars, flowVars, ctorVars, probeVars, twinVars>>

\* The loop over the batch: local_popped++ and total_processed++ for each
\* message; then the test of the flush threshold.
W_Process(w) ==
    /\ wpc[w] = "process"
    /\ local_popped' = [local_popped EXCEPT ![w] = @ + Len(batch[w])]
    /\ total_processed' = [total_processed EXCEPT ![w] = @ + Len(batch[w])]
    /\ batch' = [batch EXCEPT ![w] = <<>>]
    /\ wpc' = [wpc EXCEPT ![w] =
                  IF FlushDue(local_popped[w] + Len(batch[w])) THEN "flush" ELSE "top"]
    /\ UNCHANGED <<ringVars, threadVars, histVars, genVars, sharedVars, emptyH>>
    /\ UNCHANGED <<engineVars, flowVars, ctorVars, probeVars, twinVars>>

\* stats_.popped.fetch_add(local_popped, relaxed); local_popped = 0
W_Flush(w) ==
    /\ wpc[w] = "flush"
    /\ stats_popped' = stats_popped + local_popped[w]
    /\ local_popped' = [local_popped EXCEPT ![w] = 0]
    /\ wpc' = [wpc EXCEPT ![w] = "top"]
    /\ UNCHANGED <<ringVars, threadVars, histVars, genVars>>
    /\ UNCHANGED <<num_orders, done_, stats_generated, stats_pushed>>
    /\ UNCHANGED <<emptyH, batch, total_processed>>
    /\ UNCHANGED <<engineVars, flowVars, ctorVars, probeVars, twinVars>>

\* After the loop: stats_.popped.fetch_add(local_popped, relaxed); return.
W_Final(w) ==
    /\ wpc[w] = "final"
    /\ stats_popped' = stats_popped + FinalAdd(local_popped[w])
    /\ wpc' = [wpc EXCEPT ![w] = "exit"]
    /\ UNCHANGED <<ringVars, threadVars, histVars, genVars>>
    /\ UNCHANGED <<num_orders, done_, stats_generated, stats_pushed>>
    /\ UNCHANGED <<emptyH, batch, local_popped, total_processed>>
    /\ UNCHANGED <<engineVars, flowVars, ctorVars, probeVars, twinVars>>

(* ------------------------------- main ---------------------------------- *)

\* main: n rings, n workers (worker i on ring i), one producer on all rings,
\* the done flag false, the Stats counters zero.
InitSystem(n, k) ==
    /\ NewRings(0 .. (n - 1), RingSize)
    /\ InitThreads([t \in 0 .. n |-> IF t = 0 THEN "producer" ELSE "consumer"])
    /\ InitHist(0 .. (n - 1))
    /\ num_orders = k
    /\ done_ = FALSE
    /\ stats_generated = 0 /\ stats_pushed = 0 /\ stats_popped = 0
    /\ gpc = "loop" /\ gi = 0 /\ cur_worker_ = 0
    /\ generated = 0 /\ pushed = 0 /\ retry_count = 0
    /\ wpc = [w \in 0 .. (n - 1) |-> "top"]
    /\ emptyH = [w \in 0 .. (n - 1) |-> 0]
    /\ batch = [w \in 0 .. (n - 1) |-> <<>>]
    /\ local_popped = [w \in 0 .. (n - 1) |-> 0]
    /\ total_processed = [w \in 0 .. (n - 1) |-> 0]
    /\ NoEngineCalls

InitSys ==
    \E n \in 1 .. MaxWorkers : \E k \in 0 .. MaxOrders : InitSystem(n, k) /\ NoFlow /\ NoProbe

\* The steps of the producer thread that are not spurious CAS failures.
GeneratorStep ==
    \/ G_Iterate
    \/ G_PushFailed
    \/ G_PushOk
    \/ G_StoreGenerated
    \/ G_StorePushed
    \/ G_StoreDone
    \/ PushStep(0) /\ UNCHANGED sysVars

\* The steps of worker w that are not spurious CAS failures.
WorkerStep(w) ==
    /\ w \in Workers
    /\ \/ W_LoadDone(w)
       \/ W_EmptyHead(w)
       \/ W_EmptyTail(w)
       \/ W_BatchPop(w)
       \/ W_PopOk(w)
       \/ W_BatchDone(w)
       \/ W_ZeroLoadDone(w)
       \/ W_Process(w)
       \/ W_Flush(w)
       \/ W_Final(w)
       \/ PopStep(ThreadOf(w)) /\ UNCHANGED sysVars

NextSys ==
    \/ G_Iterate
    \/ G_PushFailed
    \/ G_PushOk
    \/ G_StoreGenerated
    \/ G_StorePushed
    \/ G_StoreDone
    \/ PushLoadSeq(0) /\ UNCHANGED sysVars
    \/ PushCas(0) /\ UNCHANGED sysVars
    \/ PushCasSpurious(0) /\ UNCHANGED sysVars
    \/ PushWrite(0) /\ UNCHANGED sysVars
    \/ PushStore(0) /\ UNCHANGED sysVars
    \/ \E w \in Workers : W_LoadDone(w)
    \/ \E w \in Workers : W_EmptyHead(w)
    \/ \E w \in Workers : W_EmptyTail(w)
    \/ \E w \in Workers : W_BatchPop(w)
    \/ \E w \in Workers : W_PopOk(w)
    \/ \E w \in Workers : W_BatchDone(w)
    \/ \E w \in Workers : W_ZeroLoadDone(w)
    \/ \E w \in Workers : W_Process(w)
    \/ \E w \in Workers : W_Flush(w)
    \/ \E w \in Workers : W_Final(w)
    \/ \E w \in Workers : PopLoadSeq(ThreadOf(w)) /\ UNCHANGED sysVars
    \/ \E w \in Workers : PopCas(ThreadOf(w)) /\ UNCHANGED sysVars
    \/ \E w \in Workers : PopCasSpurious(ThreadOf(w)) /\ UNCHANGED sysVars
    \/ \E w \in Workers : PopRead(ThreadOf(w)) /\ UNCHANGED sysVars
    \/ \E w \in Workers : PopStore(ThreadOf(w)) /\ UNCHANGED sysVars

SpecSys == InitSys /\ [][NextSys]_vars


\* Fair scheduling: every thread that can take a step eventually takes one,
\* and a compare_exchange_weak that is retried forever does not fail
\* spuriously forever.
FairSys ==
    /\ WF_vars(GeneratorStep)
    /\ SF_vars(PushCas(0) /\ UNCHANGED sysVars)
    /\ \A w \in 0 .. (MaxWorkers - 1) :
          /\ WF_vars(WorkerStep(w))
          /\ SF_vars(w \in Workers /\ PopCas(ThreadOf(w)) /\ UNCHANGED sysVars)

SpecSysFair == InitSys /\ [][NextSys]_vars /\ FairSys

(* --------------- the order content of the messages --------------------- *)

\* enum class MessageType
ADD_ORDER == 0
CANCEL_ORDER == 1

\* Config::span_ticks, scaled down.
span_ticks == 1
\* const uint32_t mid = Config::MAX_TICKS / 2
mid == MAX_TICKS \div 2
\* The ADD orders below this quantity are the ones the worker counts as
\* filled (5 in the source), scaled down with max_qty.
SMALL_QTY == 2
\* Largest cfg_.max_qty.
MaxGenQty == 2
\* The configurations of the runs that follow the order content: workers,
\* num_orders and max_qty together stay within this budget.
MsgBudget == 6

\* The values drawn from side_dist(0, 1), qty_dist(1, cfg_.max_qty) and
\* off_dist(-span_ticks, span_ticks), and the values of cfg_.cancel_every.
GenSideInputs == {SIDE_BUY, SIDE_SELL}
GenQtyInputs == 1 .. max_qty
GenOffInputs == (0 - span_ticks) .. span_ticks
CancelEveryInputs == 0 .. 2

\* clampT(v, lo, hi): v < lo ? lo : (v > hi ? hi : v)
clampT(v, lo, hi) == IF v < lo THEN lo ELSE IF v > hi THEN hi ELSE v

\* clampT<uint32_t>(mid + off, 1, Config::MAX_TICKS - 2); the sum is unsigned.
GenPrice(off) == clampT(Wrap32(mid + off + UintMod), 1, MAX_TICKS - 2)

\* bool should_cancel = (cfg_.cancel_every > 0) && (i % cfg_.cancel_every == 0)
\*                      && (i > 0) && (!active_orders_per_worker[target_worker].empty())
ShouldCancel(i, every, worker_orders) ==
    every > 0 /\ i % every = 0 /\ i > 0 /\ worker_orders # <<>>

\* Mutant: the cancelled handle stays in the list.
SwapRemove_Kept(worker_orders, idx) == worker_orders

\* worker_orders[idx] = worker_orders.back(); worker_orders.pop_back();
\* (idx counts from 0)
SwapRemove(worker_orders, idx) ==
    SubSeq([worker_orders EXCEPT ![idx + 1] = worker_orders[Len(worker_orders)]],
           1, Len(worker_orders) - 1)

\* The message of iteration i for target_worker: a CANCEL_ORDER naming
\* worker_orders[idx], or an ADD_ORDER; client_id = i + 1 in both.
CancelMsg(i, target_worker, handle, side, qty, px) ==
    [client_id |-> i + 1, worker_id |-> target_worker, msg_type |-> CANCEL_ORDER,
     handle_to_cancel |-> handle, side |-> side, price_tick |-> px, qty |-> qty,
     flags |-> 0]

AddMsg(i, target_worker, side, qty, px) ==
    [client_id |-> i + 1, worker_id |-> target_worker, msg_type |-> ADD_ORDER,
     handle_to_cancel |-> 0, side |-> side, price_tick |-> px, qty |-> qty,
     flags |-> 0]

\* One loop iteration up to the first access of push, with the whole
\* OrderMsg: the random draws, the round-robin cursor, the decision between
\* CANCEL_ORDER (a random element of the target worker's list, removed by
\* swap-with-last) and ADD_ORDER (the synthetic handle i + 1 appended to the
\* list), ++generated, and the entry of push.
G_IterateMsg ==
    /\ gpc = "loop"
    /\ MoreOrders(gi, num_orders)
    /\ \E side \in GenSideInputs, qty \in GenQtyInputs, off \in GenOffInputs :
          LET px == GenPrice(off)
              target_worker == cur_worker_
              worker_orders == active_orders_per_worker[target_worker]
          IN  IF ShouldCancel(gi, cancel_every, worker_orders)
              THEN \E idx \in 0 .. (Len(worker_orders) - 1) :
                      LET msg == CancelMsg(gi, target_worker, worker_orders[idx + 1],
                                           side, qty, px)
                      IN  /\ active_orders_per_worker' =
                                [active_orders_per_worker EXCEPT
                                    ![target_worker] = SwapRemove(worker_orders, idx)]
                          /\ emitted' = Append(emitted, msg)
                          /\ PushEnter(0, target_worker % NumRings, msg)
              ELSE LET msg == AddMsg(gi, target_worker, side, qty, px)
                   IN  /\ active_orders_per_worker' =
                             [active_orders_per_worker EXCEPT
                                 ![target_worker] = Append(worker_orders, Wrap32(gi + 1))]
                       /\ emitted' = Append(emitted, msg)
                       /\ PushEnter(0, target_worker % NumRings, msg)
    /\ cur_worker_' = NextCursor(cur_worker_, NumRings)
    /\ generated' = generated + 1
    /\ retry_count' = 0
    /\ gpc' = "pushing"
    /\ UNCHANGED <<ringVars, role, pushedLog, poppedLog, nextItem>>
    /\ UNCHANGED <<gi, pushed, workerVars, sharedVars, engineVars, ctorVars, probeVars, twinVars>>
    /\ UNCHANGED <<cancel_every, max_qty, local_donefill, local_cancels, local_rejected>>
    /\ UNCHANGED <<synthetic_to_engine_handle, engine_, handled>>
    /\ UNCHANGED <<stats_donefill, stats_cancels, stats_rejected>>

\* The locals of a worker that the loop over the batch updates.
WorkerLocals(w) ==
    [local_donefill |-> local_donefill[w], local_cancels |-> local_cancels[w],
     local_rejected |-> local_rejected[w],
     synthetic_to_engine_handle |-> synthetic_to_engine_handle[w],
     engine_ |-> engine_[w]]

\* Mutant: every ADD_ORDER is counted as filled.
IsSmall_Always(qty) == TRUE

\* if (msg.qty < 5)
IsSmall(qty) == qty < SMALL_QTY

\* The body of the loop over the batch for one message: an ADD_ORDER with a
\* small quantity is counted in local_donefill, any other ADD_ORDER enters
\* the map under its client_id; a CANCEL_ORDER whose handle_to_cancel is in
\* the map is counted in local_cancels and erased.  engine_ is not called
\* and local_rejected is not written.
ProcessMsg(L, msg) ==
    IF msg.msg_type = ADD_ORDER
    THEN IF IsSmall(msg.qty)
         THEN [L EXCEPT !.local_donefill = @ + 1]
         ELSE [L EXCEPT !.synthetic_to_engine_handle = @ \cup {Wrap32(msg.client_id)}]
    ELSE IF msg.msg_type = CANCEL_ORDER
    THEN IF msg.handle_to_cancel \in L.synthetic_to_engine_handle
         THEN [L EXCEPT !.local_cancels = @ + 1,
                        !.synthetic_to_engine_handle = @ \ {msg.handle_to_cancel}]
         ELSE L
    ELSE L

\* for (size_t i = 0; i < batch_size; ++i) over the popped messages
RECURSIVE ProcessBatch(_, _)
ProcessBatch(L, msgs) ==
    IF msgs = <<>> THEN L
    ELSE ProcessBatch(ProcessMsg(L, Head(msgs)), Tail(msgs))

\* The loop over the batch with the whole OrderMsg: local_popped++ and
\* total_processed++ for each message, the counting of ProcessMsg, then the
\* test of the flush threshold.
W_ProcessMsg(w) ==
    /\ wpc[w] = "process"
    /\ local_popped' = [local_popped EXCEPT ![w] = @ + Len(batch[w])]
    /\ total_processed' = [total_processed EXCEPT ![w] = @ + Len(batch[w])]
    /\ LET L == ProcessBatch(WorkerLocals(w), batch[w])
       IN  /\ local_donefill' = [local_donefill EXCEPT ![w] = L.local_donefill]
           /\ local_cancels' = [local_cancels EXCEPT ![w] = L.local_cancels]
           /\ local_rejected' = [local_rejected EXCEPT ![w] = L.local_rejected]
           /\ synthetic_to_engine_handle' =
                 [synthetic_to_engine_handle EXCEPT ![w] = L.synthetic_to_engine_handle]
           /\ engine_' = [engine_ EXCEPT ![w] = L.engine_]
    /\ handled' = [handled EXCEPT ![w] = @ \o batch[w]]
    /\ batch' = [batch EXCEPT ![w] = <<>>]
    /\ wpc' = [wpc EXCEPT ![w] =
                  IF FlushDue(local_popped[w] + Len(batch[w])) THEN "flush" ELSE "top"]
    /\ UNCHANGED <<ringVars, threadVars, histVars, genVars, sharedVars, emptyH>>
    /\ UNCHANGED <<engineVars, ctorVars, probeVars, twinVars, cancel_every, max_qty, active_orders_per_worker, emitted>>
    /\ UNCHANGED <<stats_donefill, stats_cancels, stats_rejected>>

\* The four fetch_add of the flush, then the four locals are set to 0.
W_FlushMsg(w) ==
    /\ wpc[w] = "flush"
    /\ stats_popped' = stats_popped + local_popped[w]
    /\ stats_donefill' = stats_donefill + local_donefill[w]
    /\ stats_cancels' = stats_cancels + local_cancels[w]
    /\ stats_rejected' = stats_rejected + local_rejected[w]
    /\ local_popped' = [local_popped EXCEPT ![w] = 0]
    /\ local_donefill' = [local_donefill EXCEPT ![w] = 0]
    /\ local_cancels' = [local_cancels EXCEPT ![w] = 0]
    /\ local_rejected' = [local_rejected EXCEPT ![w] = 0]
    /\ wpc' = [wpc EXCEPT ![w] = "top"]
    /\ UNCHANGED <<ringVars, threadVars, histVars, genVars>>
    /\ UNCHANGED <<num_orders, done_, stats_generated, stats_pushed>>
    /\ UNCHANGED <<emptyH, batch, total_processed, engineVars, ctorVars, probeVars, twinVars>>
    /\ UNCHANGED <<cancel_every, max_qty, active_orders_per_worker, emitted>>
    /\ UNCHANGED <<synthetic_to_engine_handle, engine_, handled>>

\* After the loop: the four final fetch_add; return.
W_FinalMsg(w) ==
    /\ wpc[w] = "final"
    /\ stats_popped' = stats_popped + FinalAdd(local_popped[w])
    /\ stats_donefill' = stats_donefill + local_donefill[w]
    /\ stats_cancels' = stats_cancels + local_cancels[w]
    /\ stats_rejected' = stats_rejected + local_rejected[w]
    /\ wpc' = [wpc EXCEPT ![w] = "exit"]
    /\ UNCHANGED <<ringVars, threadVars, histVars, genVars>>
    /\ UNCHANGED <<num_orders, done_, stats_generated, stats_pushed>>
    /\ UNCHANGED <<emptyH, batch, local_popped, total_processed, engineVars, ctorVars, probeVars, twinVars>>
    /\ UNCHANGED <<cancel_every, max_qty, active_orders_per_worker, emitted>>
    /\ UNCHANGED <<local_donefill, local_cancels, local_rejected>>
    /\ UNCHANGED <<synthetic_to_engine_handle, engine_, handled>>

\* The generator's empty tracking lists, each worker's zero counters, empty
\* map and new engine, and the Stats counters zero.
InitFlow(n, every, mq) ==
    /\ cancel_every = every
    /\ max_qty = mq
    /\ active_orders_per_worker = [w \in 0 .. (n - 1) |-> <<>>]
    /\ emitted = <<>>
    /\ local_donefill = [w \in 0 .. (n - 1) |-> 0]
    /\ local_cancels = [w \in 0 .. (n - 1) |-> 0]
    /\ local_rejected = [w \in 0 .. (n - 1) |-> 0]
    /\ synthetic_to_engine_handle = [w \in 0 .. (n - 1) |-> {}]
    /\ engine_ = [w \in 0 .. (n - 1) |-> NewEngine]
    /\ handled = [w \in 0 .. (n - 1) |-> <<>>]
    /\ stats_donefill = 0 /\ stats_cancels = 0 /\ stats_rejected = 0

InitSysMsg ==
    \E n \in 1 .. MaxWorkers : \E k \in 0 .. MaxOrders :
    \E every \in CancelEveryInputs : \E mq \in 1 .. MaxGenQty :
        /\ n + k + mq <= MsgBudget
        /\ InitSystem(n, k)
        /\ InitFlow(n, every, mq)
        /\ NoProbe

NextSysMsg ==
    \/ G_IterateMsg
    \/ G_PushFailed
    \/ G_PushOk
    \/ G_StoreGenerated
    \/ G_StorePushed
    \/ G_StoreDone
    \/ PushLoadSeq(0) /\ UNCHANGED sysVars
    \/ PushCas(0) /\ UNCHANGED sysVars
    \/ PushCasSpurious(0) /\ UNCHANGED sysVars
    \/ PushWrite(0) /\ UNCHANGED sysVars
    \/ PushStore(0) /\ UNCHANGED sysVars
    \/ \E w \in Workers : W_LoadDone(w)
    \/ \E w \in Workers : W_EmptyHead(w)
    \/ \E w \in Workers : W_EmptyTail(w)
    \/ \E w \in Workers : W_BatchPop(w)
    \/ \E w \in Workers : W_PopOk(w)
    \/ \E w \in Workers : W_BatchDone(w)
    \/ \E w \in Workers : W_ZeroLoadDone(w)
    \/ \E w \in Workers : W_ProcessMsg(w)
    \/ \E w \in Workers : W_FlushMsg(w)
    \/ \E w \in Workers : W_FinalMsg(w)
    \/ \E w \in Workers : PopLoadSeq(ThreadOf(w)) /\ UNCHANGED sysVars
    \/ \E w \in Workers : PopCas(ThreadOf(w)) /\ UNCHANGED sysVars
    \/ \E w \in Workers : PopCasSpurious(ThreadOf(w)) /\ UNCHANGED sysVars
    \/ \E w \in Workers : PopRead(ThreadOf(w)) /\ UNCHANGED sysVars
    \/ \E w \in Workers : PopStore(ThreadOf(w)) /\ UNCHANGED sysVars

SpecSysMsg == InitSysMsg /\ [][NextSysMsg]_vars

(* ===================== claims about the ring =========================== *)

SPSC == DOMAIN role = DOMAIN RolesSPSC
MPMC == DOMAIN role = DOMAIN RolesMPMC
ProducerThreads == {t \in DOMAIN role : role[t] = "producer"}
ConsumerThreads == {t \in DOMAIN role : role[t] = "consumer"}

IsPrefix(s, t) == Len(s) <= Len(t) /\ \A i \in 1 .. Len(s) : s[i] = t[i]
Range(s) == {s[i] : i \in 1 .. Len(s)}
NoDuplicates(s) == \A i, j \in 1 .. Len(s) : s[i] = s[j] => i = j

\* C1: with one producer thread and one consumer thread, in every interleaving
\* the items returned by successful pops are a prefix of the items given to
\* successful pushes (which are the items 1, 2, ... in the order the producer
\* offered them): same order, nothing lost, duplicated or invented.
C1_SpscFifo ==
    SPSC =>
        /\ IsPrefix(poppedLog[0], pushedLog[0])
        /\ \A i \in 1 .. Len(pushedLog[0]) : pushedLog[0][i].client_id = i

\* C1 witness: the consumer has popped all items, the last one after the ring
\* wrapped around.
C1_Witness ==
    /\ SPSC
    /\ Len(poppedLog[0]) = MaxItems
    /\ MaxItems > capacity_

\* C2: with several pushers and several poppers, every popped item was stored
\* by a successful push, no item is popped twice, and a pop that fails after
\* all pushers have stopped, once the other pops have returned, leaves every
\* pushed item returned exactly once.
C2_MpmcExactlyOnce ==
    MPMC =>
        /\ Range(poppedLog[0]) \subseteq Range(pushedLog[0])
        /\ NoDuplicates(poppedLog[0])
        /\ \A t \in ConsumerThreads :
              ( /\ pc[t] = "pop_false"
                /\ callObs[t].quiet
                /\ \A u \in ConsumerThreads : pc[u] \in Returned )
              => /\ Len(pushedLog[0]) = MaxItems
                 /\ Range(poppedLog[0]) = Range(pushedLog[0])
                 /\ Len(poppedLog[0]) = Len(pushedLog[0])

\* C2 witness: both producers pushed, both consumers popped, and a pop
\* entered after the pushers stopped has failed on the drained ring.
C2_Witness ==
    /\ MPMC
    /\ \E t \in ConsumerThreads : pc[t] = "pop_false" /\ callObs[t].quiet
    /\ \A u \in ConsumerThreads : pc[u] \in Returned
    /\ \A u \in ConsumerThreads : item[u] # NoItem
    /\ \A u \in ProducerThreads : pc[u] = "push_true"
    /\ Len(poppedLog[0]) = MaxItems

\* C3: in every reachable state of the ring, with any number of threads and
\* at every step of push and pop, 0 <= tail - head <= capacity.
C3_SizeInRange ==
    \A q \in DOMAIN head_ :
        /\ 0 <= tail_[q] - head_[q]
        /\ tail_[q] - head_[q] <= capacity_

\* C3 witness: the ring is full after it wrapped around, while a pusher and
\* a popper are both inside their calls.
C3_Witness ==
    /\ MPMC
    /\ tail_[0] - head_[0] = capacity_
    /\ head_[0] > 0
    /\ \E t \in ProducerThreads : pc[t] \notin Returned
    /\ \E t \in ConsumerThreads : pc[t] \notin Returned

\* C4 as stated: with one producer and one consumer, push returns true iff
\* tail - head < capacity held when push was called.
C4_Original ==
    SPSC =>
        \A t \in ProducerThreads :
            /\ pc[t] = "push_true" => callObs[t].space
            /\ pc[t] = "push_false" => ~callObs[t].space

\* C4 amended: with one producer and one consumer, the push decides at its
\* load of the slot's seq: it returns false iff at that load the pop of
\* position tail - capacity has not completed (pushes claimed minus pops
\* completed is >= capacity), and otherwise goes on to claim the slot; when
\* no pop is between its CAS and its seq store, that is iff
\* tail - head >= capacity.  So an empty ring of capacity C accepts exactly C
\* pushes before one fails, and after one completed pop the next push succeeds.
C4_PushDecidesAtSeqLoad ==
    [][SPSC =>
        \A t \in ProducerThreads :
            (pc[t] = "push_seq" /\ pc'[t] # "push_seq") =>
                /\ pc'[t] = "push_false"
                      <=> tail_[0] - Len(poppedLog[0]) >= capacity_
                /\ pc'[t] = "push_cas"
                      <=> tail_[0] - Len(poppedLog[0]) < capacity_
                /\ (\A u \in ConsumerThreads : pc[u] \notin {"pop_read", "pop_store"})
                      => (pc'[t] = "push_false" <=> tail_[0] - head_[0] >= capacity_)
                /\ (pc'[t] = "push_false" /\ Len(poppedLog[0]) = 0)
                      => Len(pushedLog[0]) = capacity_
      ]_vars

\* C4 witness: the push has returned false although the consumer had already
\* advanced head (tail - head < capacity when the push was called).
C4_Witness ==
    /\ SPSC
    /\ \E t \in ProducerThreads : pc[t] = "push_false" /\ callObs[t].space

\* A position is committed: claimed by a push that has published it.
PosCommitted(q, p) ==
    /\ p < tail_[q]
    /\ \A u \in ProducerThreads :
          ~(pc[u] \in {"push_write", "push_store"} /\ rq[u] = q /\ pos[u] = p)

\* C5 as stated: pop returns true iff, when it was called, some item was
\* committed and not yet popped.
C5_Original ==
    \A t \in ConsumerThreads :
        /\ pc[t] = "pop_true" => callObs[t].committed
        /\ pc[t] = "pop_false" => ~callObs[t].committed

\* C5 amended: pop decides at its load of the slot's seq.  It returns false
\* only if at that load its pos is the current head and the item at head is
\* not committed (no matter whether a later position already is); if its pos
\* is the current head and that item is committed it goes on to claim it; and
\* it only ever claims, and returns, a committed item.
C5_PopDecidesAtSeqLoad ==
    [][\A t \in ConsumerThreads :
          (pc[t] = "pop_seq" /\ pc'[t] # "pop_seq") =>
              /\ pc'[t] = "pop_false"
                    => (pos[t] = head_[0] /\ ~PosCommitted(0, head_[0]))
              /\ (pos[t] = head_[0] /\ PosCommitted(0, head_[0]))
                    => pc'[t] = "pop_cas"
              /\ pc'[t] = "pop_cas" => PosCommitted(0, pos[t])
      ]_vars

\* C5 witness: a pop has returned false while a later position is committed
\* and the earlier, claimed one is not yet published.
C5_Witness ==
    \E t \in ConsumerThreads :
        /\ pc[t] = "pop_false"
        /\ callObs[t].committed
        /\ CommittedExists(0)
        /\ ~PosCommitted(0, head_[0])
        /\ head_[0] < tail_[0]

(* ================ claims about producer and workers =================== *)

Joined == gpc = "exit" /\ \A w \in Workers : wpc[w] = "exit"

\* Messages of a run of n orders that the round-robin cursor routes to queue q.
RoutedTo(q) == Cardinality({i \in 0 .. (num_orders - 1) : i % NumRings = q})

RECURSIVE SumLen(_, _)
SumLen(logs, qs) ==
    IF qs = {} THEN 0
    ELSE LET q == CHOOSE x \in qs : TRUE
         IN  Len(logs[q]) + SumLen(logs, qs \ {q})

TotalPushed == SumLen(pushedLog, DOMAIN pushedLog)
TotalPopped == SumLen(poppedLog, DOMAIN poppedLog)

\* The one-producer, one-consumer rings never take the dif > 0 branches,
\* which NextSys therefore leaves out.
NoReloadInSystem == \A t \in DOMAIN pc : pc[t] \notin {"push_reload", "pop_reload"}

\* C6: a worker has left its loop only if producer_done is true and its
\* queue is empty, and it has then popped and processed every message the
\* producer ever pushed to its queue, which are all the messages routed to it:
\* none is still queued and none is still to be produced.
C6_WorkerExitsDrained ==
    \A w \in Workers :
        wpc[w] \in {"final", "exit"} =>
            /\ done_
            /\ head_[w] = tail_[w]
            /\ poppedLog[w] = pushedLog[w]
            /\ batch[w] = <<>>
            /\ total_processed[w] = Len(pushedLog[w])
            /\ total_processed[w] = RoutedTo(w)
            /\ gpc = "exit"

\* C6 witness: with two workers, one has exited after processing two
\* messages while the other is still running.
C6_Witness ==
    /\ NumRings = 2
    /\ \E w \in Workers : wpc[w] = "exit" /\ total_processed[w] >= 2
    /\ \E w \in Workers : wpc[w] \notin {"final", "exit"}

\* C7: under fair scheduling the producer eventually has pushed all
\* num_orders messages and set producer_done, and every worker eventually
\* exits; the run ends with all threads finished.
C7_EventuallyAllExit ==
    <>[](Joined /\ done_ /\ pushed = num_orders /\ TotalPushed = num_orders)

\* C7 witness: a queue is full and the producer's push has failed
\* SPIN_LIMIT times in a row (it is about to yield).
C7_Witness ==
    /\ gpc = "pushing"
    /\ pc[0] = "push_false"
    /\ retry_count = SPIN_LIMIT - 1
    /\ tail_[rq[0]] - head_[rq[0]] = capacity_

\* C8: after all threads have joined, stats.popped = stats.pushed =
\* stats.generated = num_orders, and every message the producer pushed was
\* popped and processed exactly once, by the worker owning the queue it was
\* routed to.
C8_NothingLostAtJoin ==
    /\ NoReloadInSystem
    /\ Joined =>
          /\ stats_popped = num_orders
          /\ stats_pushed = num_orders
          /\ stats_generated = num_orders
          /\ \A q \in Workers :
                /\ poppedLog[q] = pushedLog[q]
                /\ total_processed[q] = Len(poppedLog[q])
                /\ \A k \in 1 .. Len(poppedLog[q]) : poppedLog[q][k].worker_id = q
          /\ TotalPopped = num_orders
          /\ UNION {{m.client_id : m \in Range(poppedLog[q])} : q \in Workers}
                = 1 .. num_orders

\* C8 witness: all threads joined after a full run with the largest number
\* of workers in which some worker flushed its counters before the end.
C8_Witness ==
    /\ Joined
    /\ num_orders = MaxOrders
    /\ NumRings = MaxWorkers
    /\ \E w \in Workers : local_popped[w] < total_processed[w]

\* C9: producer_done turns true only after the last of the num_orders pushes
\* has returned true, is never reset, and once it is true no push is
\* attempted and no push succeeds.
C9_DoneOnceAfterLastPush ==
    /\ [](done_ =>
            /\ gpc = "exit"
            /\ gi = num_orders
            /\ pushed = num_orders
            /\ TotalPushed = num_orders
            /\ pc[0] \in {"idle", "push_true"})
    /\ [][done_ =>
            /\ done_'
            /\ pc'[0] = pc[0]
            /\ tail_' = tail_
            /\ pushedLog' = pushedLog]_vars

\* C9 witness: the flag is set after a full run while a worker still runs.
C9_Witness ==
    /\ done_
    /\ num_orders = MaxOrders
    /\ \E w \in Workers : wpc[w] \notin {"final", "exit"}

\* C10: the message of iteration i has client_id = i + 1 and worker_id =
\* i mod N and is pushed to queue i mod N, so the k-th message of queue q is
\* the one of iteration (k - 1) * N + q; the producer emits exactly num_orders
\* messages, and the queue loads differ by at most one.
C10_RoundRobin ==
    /\ \A q \in DOMAIN pushedLog :
          \A k \in 1 .. Len(pushedLog[q]) :
              pushedLog[q][k] =
                  [client_id |-> (k - 1) * NumRings + q + 1, worker_id |-> q]
    /\ gpc = "pushing" =>
          /\ item[0] = [client_id |-> gi + 1, worker_id |-> gi % NumRings]
          /\ rq[0] = gi % NumRings
    /\ \A q1, q2 \in DOMAIN pushedLog :
          Len(pushedLog[q1]) - Len(pushedLog[q2]) <= 1
    /\ gpc = "exit" =>
          /\ generated = num_orders
          /\ TotalPushed = num_orders
          /\ \A q \in DOMAIN pushedLog : Len(pushedLog[q]) = RoutedTo(q)

\* C10 witness: the producer has finished a run of three messages over two
\* queues, whose loads differ by exactly one.
C10_Witness ==
    /\ gpc = "exit"
    /\ NumRings = 2
    /\ num_orders = 3
    /\ Len(pushedLog[0]) = 2
    /\ Len(pushedLog[1]) = 1

(* ===================== claims about the engine ========================= *)

\* The step is a call of add_limit, of cancel, of replace.
IsAddStep == call = NoCall /\ call'.op = "add_limit"
IsCancelStep == call = NoCall /\ call'.op = "cancel"
IsReplaceStep == call = NoCall /\ call'.op = "replace"

\* The call that has just returned.
AddReturned == call.op = "add_limit"
CancelReturned == call.op = "cancel"
ReplaceReturned == call.op = "replace"

\* A value add_limit or replace returns for a rested order.
IsHandle(result) == result < MAX_ORDERS

\* C11: add_limit with qty == 0 or price_tick >= MAX_TICKS returns REJECT
\* (NIL), makes no trade, and leaves the whole engine state unchanged: levels,
\* occupancy bitsets, best_bid, best_ask, pool, free list, handle table,
\* handle cursor, total_trades and total_volume.
C11_InvalidAddRejected ==
    [][(IsAddStep /\ (call'.qty = 0 \/ call'.price_tick >= MAX_TICKS)) =>
          /\ call'.result = NIL
          /\ call'.trades = <<>>
          /\ engine' = engine
      ]_vars

\* C11 witness: an add_limit with a positive quantity and a tick out of range
\* has been rejected on a book that holds a resting order it would cross.
C11_Witness ==
    /\ AddReturned
    /\ call.qty > 0
    /\ call.price_tick >= MAX_TICKS
    /\ call.result = NIL
    /\ call.side = SIDE_BUY
    /\ engine.best_ask_ # NO_PRICE

\* The sum of the quantities of a sequence of trades.
RECURSIVE SumQty(_)
SumQty(trades) ==
    IF trades = <<>> THEN 0 ELSE Head(trades).qty + SumQty(Tail(trades))

\* The pool slots linked from idx on by next_idx, at most n of them.
RECURSIVE Chain(_, _, _)
Chain(E, idx, n) ==
    IF idx = NIL \/ n = 0 THEN <<>>
    ELSE <<idx>> \o Chain(E, E.pool_[idx].next_idx, n - 1)

\* The FIFO of a level, from its head.
LevelSeq(E, side, tick) == Chain(E, Level(E, side, tick).head, MAX_ORDERS + 1)

\* The bitset of a side.
BitsOf(E, side) == IF side = SIDE_BUY THEN E.bids_bits_ ELSE E.asks_bits_

\* C12: for a valid add_limit (qty > 0, price_tick < MAX_TICKS) the result is
\* DONE_FILL iff the whole input quantity traded; otherwise, for an order
\* without the IOC flag that finds a free pool node, the result is a handle
\* and exactly the unfilled remainder is appended at the tail of the level of
\* the order's own side and tick, whose occupancy bit is set, and the cached
\* best price of that side becomes the tick when there was none or the tick is
\* better, and is unchanged otherwise.
C12_AddFillsOrRests ==
    [][(IsAddStep /\ call'.qty > 0 /\ call'.price_tick < MAX_TICKS) =>
          LET c == call'
              traded == SumQty(c.trades)
              freed == \E k \in 1 .. Len(c.trades) : c.trades[k].maker_after = 0
              best == Best(engine, c.side)
          IN  /\ c.result = DONE_FILL <=> traded = c.qty
              /\ (traded < c.qty /\ c.flags \in {0, 2}
                    /\ (engine.free_head_ # NIL \/ freed)) =>
                    /\ IsHandle(c.result)
                    /\ LET i == engine'.handles_[c.result]
                       IN  /\ i \in Slots
                           /\ engine'.pool_[i].id = c.result
                           /\ engine'.pool_[i].qty = c.qty - traded
                           /\ engine'.pool_[i].side = c.side
                           /\ engine'.pool_[i].price_tick = c.price_tick
                           /\ LevelSeq(engine', c.side, c.price_tick)
                                 = Append(LevelSeq(engine, c.side, c.price_tick), i)
                           /\ Level(engine', c.side, c.price_tick).tail = i
                           /\ Level(engine', c.side, c.price_tick).total_qty
                                 = Level(engine, c.side, c.price_tick).total_qty
                                   + (c.qty - traded)
                    /\ test_bit(BitsOf(engine', c.side), c.price_tick)
                    /\ Best(engine', c.side) =
                          IF best = NO_PRICE THEN c.price_tick
                          ELSE IF c.side = SIDE_BUY /\ c.price_tick > best THEN c.price_tick
                          ELSE IF c.side = SIDE_SELL /\ c.price_tick < best THEN c.price_tick
                          ELSE best
      ]_vars

\* C12 witness: a SELL has traded part of its quantity against the only bid
\* and rested the remainder, which is now the best ask, behind no one; the
\* book held another ask at a worse tick.
C12_Witness ==
    /\ AddReturned
    /\ call.side = SIDE_SELL
    /\ call.trades # <<>>
    /\ IsHandle(call.result)
    /\ call.remaining = 1
    /\ engine.best_bid_ = NO_PRICE
    /\ engine.best_ask_ = call.price_tick
    /\ Len(LevelSeq(engine, SIDE_SELL, call.price_tick)) = 1
    /\ \E t \in Ticks : t > call.price_tick /\ engine.asks_[t].head # NIL

\* The elements of a sequence of slots.
SlotsOf(seq) == {seq[k] : k \in 1 .. Len(seq)}

\* The slots linked into some level FIFO.
LinkedSlots(E) ==
    UNION {SlotsOf(LevelSeq(E, side, t)) : side \in SideInputs, t \in Ticks}

\* A sequence without the element i.
Without(seq, i) == SelectSeq(seq, LAMBDA x : x # i)

\* C13: cancel(handle) returns true iff handle < MAX_ORDERS and the handle is
\* that of an order resting in some level; on true the order is unlinked from
\* its level (the other orders keep their order, the other levels are
\* untouched), its node is the new head of the free list and its handle slot
\* is NIL; on false the engine state is unchanged.
C13_CancelLiveOnly ==
    [][IsCancelStep =>
          LET h == call'.handle
              live == {i \in LinkedSlots(engine) : engine.pool_[i].id = h}
          IN  /\ call'.ok <=> (h < MAX_ORDERS /\ live # {})
              /\ ~call'.ok => engine' = engine
              /\ call'.ok =>
                    \A i \in live :
                        /\ live = {i}
                        /\ engine.handles_[h] = i
                        /\ engine'.handles_[h] = NIL
                        /\ i \notin LinkedSlots(engine')
                        /\ engine'.free_head_ = i
                        /\ engine'.pool_[i].next_idx = engine.free_head_
                        /\ \A side \in SideInputs, t \in Ticks :
                              LevelSeq(engine', side, t)
                                 = Without(LevelSeq(engine, side, t), i)
                        /\ engine'.total_trades_ = engine.total_trades_
                        /\ engine'.total_volume_ = engine.total_volume_
      ]_vars

\* C13 witness: cancel has returned true for the order in the middle of a
\* level of three.
C13_Witness ==
    /\ CancelReturned
    /\ call.ok
    /\ \E side \in SideInputs, t \in Ticks :
          /\ Len(LevelSeq(engine, side, t)) = 2
          /\ engine.pool_[engine.free_head_].price_tick = t
          /\ engine.pool_[engine.free_head_].side = side
          /\ engine.pool_[Level(engine, side, t).head].next_idx = Level(engine, side, t).tail
          /\ restedAt[Level(engine, side, t).head] < restedAt[Level(engine, side, t).tail]
          /\ engine.free_head_ = 1

\* cancel(handle) followed by add_limit{side, new_tick, new_qty, flags = 0}:
\* the result of the add_limit and the engine state after both.
CancelThenAdd(E, handle, side, new_tick, new_qty) ==
    LET c == cancel(E, handle)
        a == add_limit(c.E, [client_id |-> 0, price_tick |-> new_tick,
                             qty |-> new_qty, side |-> side, flags |-> 0])
    IN  [E |-> a.E, result |-> a.result]

IsTakerStep == IsAddStep \/ IsReplaceStep

\* The slots linked into the levels of one side.
LinkedOn(E, side) == UNION {SlotsOf(LevelSeq(E, side, t)) : t \in Ticks}

\* Order j has priority over order i, both resting on side: its tick is
\* better (higher for bids, lower for asks), or equal and j rested first.
HasPriority(E, side, j, i) ==
    LET tj == E.pool_[j].price_tick
        ti == E.pool_[i].price_tick
    IN  \/ IF side = SIDE_BUY THEN tj > ti ELSE tj < ti
        \/ tj = ti /\ restedAt[j] < restedAt[i]

\* C15: matching follows price/time priority.  Every trade of a call is
\* against an order resting on the opposite side before the call, and every
\* order that had priority over that maker (a better tick, or the same tick
\* and rested earlier) was consumed completely by an earlier trade of the
\* same call; so the best level goes first and a worse level is touched only
\* when the better ones are empty.  A maker that is filled only partially is
\* the last one traded and stays at the head of its level, with the orders
\* behind it in their old order.
C15_PriceTimePriority ==
    [][IsTakerStep =>
          LET T == call'.trades
          IN  \A k \in 1 .. Len(T) :
                 LET i == T[k].idx
                     ms == T[k].side
                 IN  /\ i \in LinkedOn(engine, ms)
                     /\ engine.pool_[i].price_tick = T[k].tick
                     /\ engine.pool_[i].qty = T[k].maker_before
                     /\ \A j \in LinkedOn(engine, ms) :
                           HasPriority(engine, ms, j, i) =>
                              \E e \in 1 .. (k - 1) :
                                 T[e].idx = j /\ T[e].maker_after = 0
                     /\ T[k].maker_after > 0 =>
                           /\ k = Len(T)
                           /\ Level(engine', ms, T[k].tick).head = i
                           /\ engine'.pool_[i].qty = T[k].maker_after
                           /\ \E n \in 0 .. MAX_ORDERS :
                                 LevelSeq(engine', ms, T[k].tick)
                                    = SubSeq(LevelSeq(engine, ms, T[k].tick), n + 1,
                                             Len(LevelSeq(engine, ms, T[k].tick)))
      ]_vars

\* C15 witness: a SELL has consumed the bid at the better tick completely and
\* then part of the first of two bids resting at the worse tick, which is
\* still at the head of its level, ahead of the bid that rested after it.
C15_Witness ==
    /\ AddReturned
    /\ call.side = SIDE_SELL
    /\ Len(call.trades) = 2
    /\ call.trades[1].tick > call.trades[2].tick
    /\ call.trades[1].maker_after = 0
    /\ call.trades[2].maker_after > 0
    /\ call.result = DONE_FILL
    /\ LET lvl == engine.bids_[call.trades[2].tick]
       IN  /\ lvl.head = call.trades[2].idx
           /\ lvl.tail # lvl.head
           /\ restedAt[lvl.head] < restedAt[lvl.tail]

\* The order that the call returning result has rested, if any.
RestedSlot(E, result) == IF IsHandle(result) THEN E.handles_[result] ELSE NIL

\* C16: every add_limit call conserves quantity.  The trade quantities and
\* the remainder left after matching add up to the input qty; each trade is
\* against a different resting order, takes a positive quantity, and lowers
\* that order's qty by exactly the trade quantity, while every other resting
\* order keeps its qty; a rested remainder carries exactly the remainder and
\* DONE_FILL means no remainder; total_volume grows by the sum of the trade
\* quantities and total_trades by the number of trades.
C16_QuantityConserved ==
    [][IsAddStep =>
          LET T == call'.trades
              rested == RestedSlot(engine', call'.result)
          IN  /\ SumQty(T) + call'.remaining = call'.qty
              /\ \A k \in 1 .. Len(T) :
                    /\ T[k].qty > 0
                    /\ T[k].idx \in LinkedSlots(engine)
                    /\ T[k].maker_before = engine.pool_[T[k].idx].qty
                    /\ T[k].maker_after = T[k].maker_before - T[k].qty
                    /\ T[k].maker_after >= 0
                    /\ \A e \in 1 .. Len(T) : T[e].idx = T[k].idx => e = k
                    /\ IF T[k].maker_after > 0
                       THEN /\ T[k].idx \in LinkedSlots(engine')
                            /\ engine'.pool_[T[k].idx].qty = T[k].maker_after
                       ELSE T[k].idx \in LinkedSlots(engine') => T[k].idx = rested
              /\ \A i \in LinkedSlots(engine) :
                    (\A k \in 1 .. Len(T) : T[k].idx # i) =>
                       /\ i \in LinkedSlots(engine')
                       /\ i # rested
                       /\ engine'.pool_[i].qty = engine.pool_[i].qty
              /\ rested # NIL => /\ call'.remaining > 0
                                 /\ engine'.pool_[rested].qty = call'.remaining
              /\ call'.result = DONE_FILL => call'.remaining = 0
              /\ engine'.total_volume_ = engine.total_volume_ + SumQty(T)
              /\ engine'.total_trades_ = engine.total_trades_ + Len(T)
      ]_vars

\* C16 witness: an add_limit of 2 has traded 1 with each of two resting
\* orders and is completely filled; the counters show both trades.
C16_Witness ==
    /\ AddReturned
    /\ call.qty = 2
    /\ Len(call.trades) = 2
    /\ SumQty(call.trades) = 2
    /\ call.remaining = 0
    /\ engine.total_trades_ = 2
    /\ engine.total_volume_ = 2

\* A resting order i on the makers' side is at a price an incoming order of
\* the other side limited at price_tick would trade at.
CrossingOrder(E, makers, i, price_tick) ==
    IF makers = SIDE_SELL THEN E.pool_[i].price_tick <= price_tick
    ELSE E.pool_[i].price_tick >= price_tick

\* The side opposite to side.
Opposite(side) == IF side = SIDE_BUY THEN SIDE_SELL ELSE SIDE_BUY

\* C17: a valid add_limit with the IOC bit set (flags 1 or 3) never rests.
\* It returns DONE_FILL when nothing is left and REJECT (NIL) when something
\* is left; either way no order is added to any level, no handle slot is
\* newly set, the handle cursor does not move and the order's own side of the
\* book is untouched, while the trades already made stay (the makers' side
\* and the counters show them).  When no resting order of the opposite side
\* is at a crossing price (for instance on an empty book) it returns REJECT
\* and the engine state is unchanged.
C17_IocNeverRests ==
    [][(IsAddStep /\ call'.flags \in {1, 3}
          /\ call'.qty > 0 /\ call'.price_tick < MAX_TICKS) =>
          LET T == call'.trades
              own == call'.side
              makers == Opposite(own)
          IN  /\ call'.result = IF call'.remaining > 0 THEN NIL ELSE DONE_FILL
              /\ LinkedSlots(engine') \subseteq LinkedSlots(engine)
              /\ \A h \in Slots :
                    engine'.handles_[h] \in {NIL, engine.handles_[h]}
              /\ engine'.next_handle_ = engine.next_handle_
              /\ \A t \in Ticks : Level(engine', own, t) = Level(engine, own, t)
              /\ BitsOf(engine', own) = BitsOf(engine, own)
              /\ Best(engine', own) = Best(engine, own)
              /\ engine'.total_trades_ = engine.total_trades_ + Len(T)
              /\ \A k \in 1 .. Len(T) :
                    IF T[k].maker_after > 0
                    THEN /\ T[k].idx \in LinkedOn(engine', makers)
                         /\ engine'.pool_[T[k].idx].qty = T[k].maker_after
                    ELSE /\ T[k].idx \notin LinkedSlots(engine')
                         /\ engine'.handles_[T[k].id] = NIL
              /\ (\A i \in LinkedOn(engine, makers) :
                     ~CrossingOrder(engine, makers, i, call'.price_tick)) =>
                    /\ call'.result = NIL
                    /\ T = <<>>
                    /\ engine' = engine
      ]_vars

\* C17 witness: an IOC order of 2 has traded 1 with the only crossing order,
\* was refused for the rest, and nothing rests on its own side.
C17_Witness ==
    /\ AddReturned
    /\ call.flags = 1
    /\ call.qty = 2
    /\ Len(call.trades) = 1
    /\ call.remaining = 1
    /\ call.result = NIL
    /\ LinkedOn(engine, call.side) = {}
    /\ engine.total_volume_ = 1

\* The input of the add_limit call recorded in c, with the given flags.
InputOf(c, flags) ==
    [client_id |-> 0, price_tick |-> c.price_tick, qty |-> c.qty,
     side |-> c.side, flags |-> flags]

\* C18, as claimed: a valid add_limit with the FOK bit set (flags 2 or 3)
\* that matching does not fill completely returns REJECT (NIL) and rests no
\* remainder, on the BUY and on the SELL side.
C18_Original ==
    [][(IsAddStep /\ call'.flags \in {2, 3}
          /\ call'.qty > 0 /\ call'.price_tick < MAX_TICKS
          /\ call'.remaining > 0) =>
          /\ call'.result = NIL
          /\ LinkedSlots(engine') \subseteq LinkedSlots(engine)
      ]_vars

\* C18, what the code does: the FOK bit changes nothing.  An add_limit with
\* the bit set returns the same value and leaves the same engine state as the
\* same call with the bit cleared, so without the IOC bit the remainder of a
\* FOK order rests and its handle is returned.
C18_FokFlagIgnored ==
    [][(IsAddStep /\ call'.flags \in {2, 3}) =>
          LET r == add_limit(engine, InputOf(call', call'.flags - 2))
          IN  /\ call'.result = r.result
              /\ engine' = r.E
              /\ call'.trades = r.trades
              /\ (call'.flags = 2 /\ call'.remaining > 0
                    /\ engine.free_head_ # NIL /\ call'.price_tick < MAX_TICKS) =>
                    /\ IsHandle(call'.result)
                    /\ RestedSlot(engine', call'.result) \in LinkedOn(engine', call'.side)
      ]_vars

\* C18 witness: a SELL with only the FOK bit has traded 1 of its 2 and the
\* other 1 rests as an ask under the handle the call returned.
C18_Witness ==
    /\ AddReturned
    /\ call.flags = 2
    /\ call.side = SIDE_SELL
    /\ call.qty = 2
    /\ Len(call.trades) = 1
    /\ call.remaining = 1
    /\ IsHandle(call.result)
    /\ RestedSlot(engine, call.result) \in LinkedOn(engine, SIDE_SELL)
    /\ engine.pool_[RestedSlot(engine, call.result)].qty = 1

\* The free list, from free_head_ along next_idx.
FreeList(E) == Chain(E, E.free_head_, MAX_ORDERS + 1)

\* The lists a pool slot can be on: list 0 is the free list, lists 1 and 2
\* are the bid and ask FIFOs of a tick.
ListAt(E, list, tick) ==
    IF list = 0 THEN FreeList(E) ELSE LevelSeq(E, list - 1, tick)

\* The places where slot i occurs: <<list, tick, position>>, the free list
\* counted once (at tick 0).
Places(E, i) ==
    {p \in (0 .. 2) \X Ticks \X (1 .. MAX_ORDERS + 1) :
        /\ p[1] = 0 => p[2] = 0
        /\ p[3] <= Len(ListAt(E, p[1], p[2]))
        /\ ListAt(E, p[1], p[2])[p[3]] = i}

\* C19: in every state reached by add_limit, cancel, replace and reset calls
\* every pool slot occurs at exactly one place: either once on the free list,
\* or once in one price-level FIFO, and then it is the slot its own handle
\* maps to and the level is the one of its side and tick.  So the free list
\* and the FIFOs end (no cycle), and the length of the free list plus the
\* number of linked slots is MAX_ORDERS.
C19_PoolPartition ==
    /\ Len(FreeList(engine)) <= MAX_ORDERS
    /\ \A i \in Slots :
          /\ Cardinality(Places(engine, i)) = 1
          /\ \A p \in Places(engine, i) :
                p[1] # 0 =>
                   /\ engine.pool_[i].id \in Slots
                   /\ engine.handles_[engine.pool_[i].id] = i
                   /\ engine.pool_[i].side = p[1] - 1
                   /\ engine.pool_[i].price_tick = p[2]
    /\ Len(FreeList(engine)) + Cardinality(LinkedSlots(engine)) = MAX_ORDERS

\* C19 witness: slot 0 was allocated and freed again (it heads the free list,
\* before the never used slot 2) while slot 1 is linked into a level.
C19_Witness ==
    /\ FreeList(engine) = <<0, 2>>
    /\ LinkedSlots(engine) = {1}
    /\ CancelReturned
    /\ call.ok

\* A call of this step has emptied the slot of handle h: a trade filled the
\* order with that handle, or replace cancelled it.
FreedInCall(c, h) ==
    \/ \E k \in 1 .. Len(c.trades) : c.trades[k].id = h /\ c.trades[k].maker_after = 0
    \/ c.op = "replace" /\ c.handle = h /\ c.result # NIL

\* The handle table agrees with the levels: handles_[h] is the slot of the
\* linked order whose handle is h, and NIL if there is none.
HandlesMatchLevels(E) ==
    \A h \in Slots :
       /\ \A i \in Slots :
             E.handles_[h] = i <=> (i \in LinkedSlots(E) /\ E.pool_[i].id = h)
       /\ E.handles_[h] \in Slots \cup {NIL}

\* C20: in every reachable state handles_[h] == i iff slot i is linked into
\* a level and carries handle h, and handles_[h] == NIL otherwise, so no two
\* resting orders share a handle; a value add_limit or replace returns is
\* NIL, DONE_FILL or a handle below MAX_ORDERS that maps to the order just
\* rested; and a handle slot receives a (new) pool slot only in the call that
\* returns that handle, and only if the slot was NIL before the call or was
\* set to NIL during it (its order was filled by the call, or cancelled by
\* the replace).
C20_HandleTable ==
    /\ [](/\ HandlesMatchLevels(engine)
          /\ \A i, j \in LinkedSlots(engine) :
                engine.pool_[i].id = engine.pool_[j].id => i = j
          /\ (AddReturned \/ ReplaceReturned) =>
                /\ call.result \in Slots \cup {NIL, DONE_FILL}
                /\ call.result \in Slots => engine.handles_[call.result] # NIL)
    /\ [][\A h \in Slots :
             (engine'.handles_[h] # NIL /\ engine'.handles_[h] # engine.handles_[h]) =>
                /\ IsTakerStep
                /\ call'.result = h
                /\ engine.handles_[h] = NIL \/ FreedInCall(call', h)
       ]_vars

\* C20 witness: handle 0 has been reassigned.  One trade has happened and
\* three orders rest, so the order first given handle 0 was filled, handles 1
\* and 2 went to later orders, and the call that has just returned got 0.
C20_Witness ==
    /\ AddReturned
    /\ call.result = 0
    /\ engine.total_trades_ = 1
    /\ Cardinality(LinkedSlots(engine)) = 3
    /\ engine.next_handle_ = 1

(* ------------- claims about the book's invariants (engine) ------------- *)

\* The exact sum of the quantities of the orders linked into a level.
RECURSIVE SumPoolQty(_, _)
SumPoolQty(E, seq) ==
    IF seq = <<>> THEN 0 ELSE E.pool_[Head(seq)].qty + SumPoolQty(E, Tail(seq))

\* C21, as claimed: for every tick and side, the occupancy bit is set iff
\* the level's head is not NIL iff the level's total_qty is greater than 0.
C21_Original ==
    \A side \in SideInputs, t \in Ticks :
       /\ test_bit(BitsOf(engine, side), t) <=> Level(engine, side, t).head # NIL
       /\ Level(engine, side, t).head # NIL <=> Level(engine, side, t).total_qty > 0

\* C21, what the code keeps: the occupancy bit is set iff the level's head
\* is not NIL; an empty level has total_qty 0; and total_qty is the sum of
\* the level's quantities modulo 2^32, so it is greater than 0 on an occupied
\* level only as long as that sum is not a multiple of 2^32.
C21_BitIffHead ==
    \A side \in SideInputs, t \in Ticks :
       LET lvl == Level(engine, side, t)
       IN  /\ test_bit(BitsOf(engine, side), t) <=> lvl.head # NIL
           /\ lvl.head = NIL => lvl.total_qty = 0
           /\ lvl.total_qty = SumPoolQty(engine, LevelSeq(engine, side, t)) % UintMod

\* C21 witness: a level holds two orders, its occupancy bit is set, and its
\* total_qty is 0.
C21_Witness ==
    \E side \in SideInputs, t \in Ticks :
       /\ Len(LevelSeq(engine, side, t)) = 2
       /\ test_bit(BitsOf(engine, side), t)
       /\ Level(engine, side, t).total_qty = 0

\* The ticks of a side whose level holds at least one order.
OccupiedTicks(E, side) == {t \in Ticks : Level(E, side, t).head # NIL}

\* C22: in every reachable state the cached best bid is the highest tick
\* with a non-empty bid level and the cached best ask is the lowest tick with
\* a non-empty ask level; it is NO_PRICE exactly when the side has no
\* non-empty level.  So the cache never names an empty level and never
\* misses a better occupied tick.
C22_BestIsExtremal ==
    /\ IF OccupiedTicks(engine, SIDE_BUY) = {}
       THEN engine.best_bid_ = NO_PRICE
       ELSE /\ engine.best_bid_ \in OccupiedTicks(engine, SIDE_BUY)
            /\ \A t \in OccupiedTicks(engine, SIDE_BUY) : t <= engine.best_bid_
    /\ IF OccupiedTicks(engine, SIDE_SELL) = {}
       THEN engine.best_ask_ = NO_PRICE
       ELSE /\ engine.best_ask_ \in OccupiedTicks(engine, SIDE_SELL)
            /\ \A t \in OccupiedTicks(engine, SIDE_SELL) : t >= engine.best_ask_

\* C22 witness: the best ask level was consumed by a BUY, and the cached
\* best ask has moved up to the only ask level left, one tick higher in the
\* same bitset word; the bids have no level at all.
C22_Witness ==
    /\ AddReturned
    /\ call.side = SIDE_BUY
    /\ call.result = DONE_FILL
    /\ Len(call.trades) = 1
    /\ call.trades[1].tick = 0
    /\ OccupiedTicks(engine, SIDE_SELL) = {1}
    /\ engine.best_ask_ = 1
    /\ engine.best_bid_ = NO_PRICE

\* The level's list is linked consistently: the head has no predecessor,
\* every other node's prev_idx is the node before it, the last node is the
\* tail and has no successor, and the nodes stand in the order they rested.
WellLinked(E, side, t) ==
    LET seq == LevelSeq(E, side, t)
        lvl == Level(E, side, t)
    IN  /\ Len(seq) <= MAX_ORDERS
        /\ lvl.head = NIL <=> lvl.tail = NIL
        /\ seq # <<>> =>
              /\ E.pool_[seq[1]].prev_idx = NIL
              /\ lvl.tail = seq[Len(seq)]
              /\ E.pool_[seq[Len(seq)]].next_idx = NIL
        /\ \A k \in 1 .. Len(seq) - 1 :
              /\ E.pool_[seq[k + 1]].prev_idx = seq[k]
              /\ restedAt[seq[k]] < restedAt[seq[k + 1]]

\* C23, as claimed: for every level, head == NIL iff tail == NIL iff
\* total_qty == 0, the links form a consistent doubly-linked list from head
\* to tail in insertion order, and total_qty is the exact sum of the
\* quantities of the linked nodes.
C23_Original ==
    \A side \in SideInputs, t \in Ticks :
       LET lvl == Level(engine, side, t)
       IN  /\ WellLinked(engine, side, t)
           /\ lvl.head = NIL <=> lvl.total_qty = 0
           /\ lvl.total_qty = SumPoolQty(engine, LevelSeq(engine, side, t))

\* C23, what the code keeps: the list part of the claim, total_qty == 0 on
\* an empty level, and total_qty equal to the sum of the quantities of the
\* linked nodes modulo 2^32 only.
C23_LevelLists ==
    \A side \in SideInputs, t \in Ticks :
       LET lvl == Level(engine, side, t)
       IN  /\ WellLinked(engine, side, t)
           /\ lvl.head = NIL => lvl.total_qty = 0
           /\ lvl.total_qty = Wrap32(SumPoolQty(engine, LevelSeq(engine, side, t)))

\* C23 witness: a level of two orders, of 2^31 and of UINT32_MAX, whose
\* total_qty is 2^32 short of their sum.
C23_Witness ==
    \E side \in SideInputs, t \in Ticks :
       LET seq == LevelSeq(engine, side, t)
       IN  /\ Len(seq) = 2
           /\ engine.pool_[seq[1]].qty = UintMod \div 2
           /\ engine.pool_[seq[2]].qty = UintMod - 1
           /\ Level(engine, side, t).total_qty
                 = SumPoolQty(engine, seq) - UintMod
           /\ Level(engine, side, t).total_qty > 0

(* ------------------- claims about call pairs (engine) ------------------ *)

\* The state of the book: the levels as lists with their totals, both
\* occupancy bitsets, both best prices, the free list and the handle table.
\* (The handle cursor and the fields of nodes on the free list are not part
\* of it.)
BookState(E) ==
    [ levels     |-> [side \in SideInputs |-> [t \in Ticks |->
                        [nodes     |-> LevelSeq(E, side, t),
                         qtys      |-> [k \in 1 .. Len(LevelSeq(E, side, t)) |->
                                           E.pool_[LevelSeq(E, side, t)[k]].qty],
                         head      |-> Level(E, side, t).head,
                         tail      |-> Level(E, side, t).tail,
                         total_qty |-> Level(E, side, t).total_qty]]],
      bids_bits_ |-> E.bids_bits_,
      asks_bits_ |-> E.asks_bits_,
      best_bid_  |-> E.best_bid_,
      best_ask_  |-> E.best_ask_,
      free       |-> FreeList(E),
      handles_   |-> E.handles_ ]

\* C24, as claimed: for any add_limit that returns a handle h, cancel(h)
\* called next returns true and leaves best_bid, best_ask, both occupancy
\* bitsets, the free list and the handle table as they were before the
\* add_limit.
C24_Original ==
    [][(IsAddStep /\ IsHandle(call'.result)) =>
          LET c == cancel(engine', call'.result)
          IN  /\ c.result
              /\ c.E.best_bid_ = engine.best_bid_
              /\ c.E.best_ask_ = engine.best_ask_
              /\ c.E.bids_bits_ = engine.bids_bits_
              /\ c.E.asks_bits_ = engine.asks_bits_
              /\ FreeList(c.E) = FreeList(engine)
              /\ c.E.handles_ = engine.handles_
      ]_vars

\* C24, amended: for any add_limit that makes no trade and returns a handle
\* h, cancel(h) called next returns true and leaves the book (levels,
\* occupancy bitsets, best prices, free list, handle table) as it was before
\* the add_limit; if the add_limit traded before resting its remainder, the
\* cancel still returns true and restores the order's own side (levels,
\* bitset, best price), while the trades stay.
C24_AddThenCancel ==
    [][(IsAddStep /\ IsHandle(call'.result)) =>
          LET c == cancel(engine', call'.result)
              own == call'.side
          IN  /\ c.result
              /\ BookState(c.E).levels[own] = BookState(engine).levels[own]
              /\ BitsOf(c.E, own) = BitsOf(engine, own)
              /\ Best(c.E, own) = Best(engine, own)
              /\ call'.trades = <<>> => BookState(c.E) = BookState(engine)
              /\ call'.trades # <<>> =>
                    c.E.total_trades_ = engine.total_trades_ + Len(call'.trades)
      ]_vars

\* C24 witness: with one order resting, a second one was rested without a
\* trade and then cancelled: the cancel has just returned true, the first
\* order is alone in the book again and the free list is back in its order.
C24_Witness ==
    /\ CancelReturned
    /\ call.ok
    /\ call.handle = 1
    /\ ncalls = 3
    /\ engine.total_trades_ = 0
    /\ engine.next_handle_ = 2
    /\ LinkedSlots(engine) = {0}
    /\ FreeList(engine) = <<1, 2>>

\* C25: for a live handle h, when replace(h, t, q) makes no trade and
\* returns a handle new_h, cancel(new_h) called next returns true and leaves
\* the same book (levels, occupancy bitsets, best prices, free list, handle
\* table) as cancel(h) alone would have left.
C25_ReplaceThenCancel ==
    [][(IsReplaceStep /\ IsHandle(call'.result) /\ call'.trades = <<>>) =>
          LET after == cancel(engine', call'.result)
              alone == cancel(engine, call'.handle)
          IN  /\ alone.result
              /\ after.result
              /\ BookState(after.E) = BookState(alone.E)
      ]_vars

\* C25 witness: the older of two bids of one level was replaced to another
\* tick without a trade and the replacement was then cancelled: the cancel
\* has just returned true and the younger bid is alone in the book.
C25_Witness ==
    /\ CancelReturned
    /\ call.ok
    /\ call.handle = 2
    /\ ncalls = 4
    /\ engine.total_trades_ = 0
    /\ engine.next_handle_ = 0
    /\ LinkedSlots(engine) = {1}
    /\ engine.handles_[1] = 1
    /\ FreeList(engine) = <<0, 2>>

(* ============ claims about the messages and their handling ============= *)

\* The counters and the book that the dispatch of a list of messages to a
\* MatchingEngine gives: add_limit(msg) for an ADD_ORDER, counted in donefill
\* when it returns DONE_FILL and in rejected when it returns REJECT (NIL);
\* cancel(msg.handle_to_cancel) for a CANCEL_ORDER, counted in cancels when
\* it returns true.
NoDispatch == [E |-> NewEngine, donefill |-> 0, rejected |-> 0, cancels |-> 0]

DispatchOne(D, msg) ==
    IF msg.msg_type = ADD_ORDER
    THEN After(add_limit(D.E, msg),
               LAMBDA r :
                  [D EXCEPT !.E = r.E,
                            !.donefill = IF r.result = DONE_FILL THEN @ + 1 ELSE @,
                            !.rejected = IF r.result = NIL THEN @ + 1 ELSE @])
    ELSE After(cancel(D.E, msg.handle_to_cancel),
               LAMBDA r :
                  [D EXCEPT !.E = r.E,
                            !.cancels = IF r.result THEN @ + 1 ELSE @])

RECURSIVE Dispatched(_, _)
Dispatched(D, msgs) ==
    IF msgs = <<>> THEN D
    ELSE Dispatched(DispatchOne(D, Head(msgs)), Tail(msgs))

\* The sum of f[w] over the workers ws.
RECURSIVE SumOver(_, _)
SumOver(f, ws) ==
    IF ws = {} THEN 0
    ELSE LET w == CHOOSE x \in ws : TRUE
         IN  f[w] + SumOver(f, ws \ {w})

\* The workers whose locals are not yet in the Stats counters for good.
Running == {w \in Workers : wpc[w] # "exit"}

\* What the workers have counted so far: the Stats counter plus the locals
\* not yet added to it.
CountedDonefill == stats_donefill + SumOver(local_donefill, Running)
CountedRejected == stats_rejected + SumOver(local_rejected, Running)
CountedCancels == stats_cancels + SumOver(local_cancels, Running)

\* The number of small ADD_ORDER messages in msgs.
SmallAdds(msgs) ==
    Cardinality({k \in 1 .. Len(msgs) :
                    msgs[k].msg_type = ADD_ORDER /\ msgs[k].qty < SMALL_QTY})

\* C26, as claimed: the book of each worker's engine is the one its messages
\* give when every ADD is passed to add_limit and every CANCEL to cancel, and
\* the counters donefill, rejected and cancels are the numbers of
\* FULLY_FILLED results, REJECT results and successful cancels of these calls.
C26_Original ==
    /\ \A w \in Workers : engine_[w] = Dispatched(NoDispatch, handled[w]).E
    /\ CountedDonefill =
          SumOver([w \in Workers |-> Dispatched(NoDispatch, handled[w]).donefill], Workers)
    /\ CountedRejected =
          SumOver([w \in Workers |-> Dispatched(NoDispatch, handled[w]).rejected], Workers)
    /\ CountedCancels =
          SumOver([w \in Workers |-> Dispatched(NoDispatch, handled[w]).cancels], Workers)

\* C26, as the code behaves: no worker ever calls its engine, whose book
\* stays the new one; donefill counts the ADD messages with a quantity below
\* the threshold, rejected stays 0, and a CANCEL is counted only when its
\* handle names an earlier large ADD handled by the same worker.
C26_WorkerSimulates ==
    /\ \A w \in Workers : engine_[w] = NewEngine
    /\ CountedDonefill = SumOver([w \in Workers |-> SmallAdds(handled[w])], Workers)
    /\ CountedRejected = 0
    /\ \A w \in Workers :
          synthetic_to_engine_handle[w] \subseteq
             {handled[w][k].client_id : k \in 1 .. Len(handled[w])}

\* C26 witness: a worker has handled, as its first message, a small ADD that
\* add_limit rests in the empty book; the worker has counted it as filled and
\* its engine is still new.
C26_Witness ==
    \E w \in Workers :
        /\ Len(handled[w]) >= 1
        /\ handled[w][1].msg_type = ADD_ORDER
        /\ handled[w][1].qty < SMALL_QTY
        /\ add_limit(NewEngine, handled[w][1]).result \notin {NIL, DONE_FILL}
        /\ CountedDonefill >= 1
        /\ engine_[w] = NewEngine

\* The handles the generator tracks for worker w after the first k emitted
\* messages: the client_ids of the ADD_ORDER messages routed to w, without
\* the handles the CANCEL_ORDER messages routed to w have named.
AddedTo(w, k) ==
    {emitted[j].client_id : j \in {x \in 1 .. k : /\ emitted[x].worker_id = w
                                                   /\ emitted[x].msg_type = ADD_ORDER}}
NamedFor(w, k) ==
    {emitted[j].handle_to_cancel :
        j \in {x \in 1 .. k : /\ emitted[x].worker_id = w
                              /\ emitted[x].msg_type = CANCEL_ORDER}}
Tracked(w, k) == AddedTo(w, k) \ NamedFor(w, k)

\* C27: the message of iteration i (the (i + 1)-th emitted) is a CANCEL iff
\* cancel_every > 0, i > 0, i mod cancel_every = 0 and the list of the target
\* worker is not empty; a CANCEL names a handle of that list, which holds
\* exactly the handles i' + 1 of the earlier ADDs routed to the same worker
\* that no earlier CANCEL has named; every other message is an ADD with
\* client_id i + 1, which enters the list; and no handle is named by two
\* CANCEL messages.
C27_CancelEmission ==
    /\ \A k \in 1 .. Len(emitted) :
          LET i == k - 1
              msg == emitted[k]
              due == /\ cancel_every > 0
                     /\ i > 0
                     /\ i % cancel_every = 0
                     /\ Tracked(msg.worker_id, i) # {}
          IN  /\ msg.client_id = i + 1
              /\ msg.msg_type \in {ADD_ORDER, CANCEL_ORDER}
              /\ msg.msg_type = CANCEL_ORDER <=> due
              /\ msg.msg_type = CANCEL_ORDER =>
                    msg.handle_to_cancel \in Tracked(msg.worker_id, i)
    /\ \A w \in DOMAIN active_orders_per_worker :
          /\ Range(active_orders_per_worker[w]) = Tracked(w, Len(emitted))
          /\ NoDuplicates(active_orders_per_worker[w])
    /\ \A j, k \in 1 .. Len(emitted) :
          ( /\ emitted[j].msg_type = CANCEL_ORDER
            /\ emitted[k].msg_type = CANCEL_ORDER
            /\ emitted[j].handle_to_cancel = emitted[k].handle_to_cancel ) => j = k

\* C27 witness: with two handles in the list of a worker the third message
\* was a CANCEL of the older one, removed by the swap with the last.
C27_Witness ==
    /\ Len(emitted) = 3
    /\ emitted[3].msg_type = CANCEL_ORDER
    /\ emitted[3].handle_to_cancel = 1
    /\ active_orders_per_worker[0] = <<2>>

(* ================== claims about pool exhaustion (engine) ============== *)

\* The handles in use, and the valid inputs of add_limit that rest what
\* matching leaves (no IOC bit).
LiveHandles(E) == {h \in Slots : E.handles_[h] # NIL}
RestInputs ==
    [client_id : {0}, price_tick : Ticks, qty : 1 .. MaxQty,
     side : SideInputs, flags : {0, 2}]

\* All MAX_ORDERS nodes are linked into levels.
PoolFull(E) == LinkedSlots(E) = Slots

\* Every index stored in the engine is a pool index or NIL.
InsidePool(E) ==
    /\ DOMAIN E.pool_ = Slots
    /\ DOMAIN E.handles_ = Slots
    /\ E.free_head_ \in Slots \cup {NIL}
    /\ \A i \in Slots :
          /\ E.pool_[i].next_idx \in Slots \cup {NIL}
          /\ E.pool_[i].prev_idx \in Slots \cup {NIL}
          /\ E.handles_[i] \in Slots \cup {NIL}
    /\ \A side \in SideInputs, t \in Ticks :
          /\ Level(E, side, t).head \in Slots \cup {NIL}
          /\ Level(E, side, t).tail \in Slots \cup {NIL}

\* C28: never more than MAX_ORDERS resting orders or handles, and no index
\* outside the pool; all nodes are in use exactly when the free list is
\* empty; an add_limit whose remainder has to rest while all nodes are in use
\* after its matching returns REJECT, and a REJECT of a valid order has
\* traded nothing and leaves the engine as it was (no node, no handle,
\* next_handle_ unchanged); whenever a node is free, as
\* after a successful cancel or a fill of a maker on a full pool, every valid
\* add_limit without the IOC bit fills or rests.
C28_PoolExhaustion ==
    /\ [](/\ Cardinality(LinkedSlots(engine)) <= MAX_ORDERS
          /\ Cardinality(LiveHandles(engine)) <= MAX_ORDERS
          /\ InsidePool(engine)
          /\ PoolFull(engine) <=> engine.free_head_ = NIL
          /\ ~PoolFull(engine) =>
                \A in \in RestInputs : add_limit(engine, in).result # NIL)
    /\ [][(call = NoCall /\ call'.op = "add_limit"
              /\ ~InvalidOrder(call'.qty, call'.price_tick) /\ ~IsIOC(call'.flags)) =>
            LET m == MatchBook(engine, Opposite(call'.side), call'.price_tick,
                               call'.qty, <<>>)
            IN  /\ (m.remaining # 0 /\ PoolFull(m.E)) =>
                      /\ call'.result = NIL
                      /\ engine' = m.E
                /\ call'.result = NIL =>
                      /\ PoolFull(engine)
                      /\ call'.trades = <<>>
                      /\ engine' = engine
       ]_vars
    /\ [][(call = NoCall /\ PoolFull(engine)
              /\ \/ call'.op = "cancel" /\ call'.ok
                 \/ call'.op = "add_limit" /\ call'.result = DONE_FILL
                       /\ LiveHandles(engine') # LiveHandles(engine)) =>
            /\ ~PoolFull(engine')
            /\ \A in \in RestInputs : add_limit(engine', in).result # NIL
       ]_vars

\* C28 witness: with all MAX_ORDERS nodes in use a valid add_limit without
\* the IOC bit has returned REJECT.
C28_Witness ==
    /\ call.op = "add_limit"
    /\ ~InvalidOrder(call.qty, call.price_tick)
    /\ ~IsIOC(call.flags)
    /\ call.result = NIL
    /\ PoolFull(engine)
    /\ Cardinality(LiveHandles(engine)) = MAX_ORDERS

(* ================= claims about the ring constructor =================== *)

IsPowerOfTwo(c) == \E k \in 0 .. SIZE_BITS : c = 2 ^ k

\* capacity_ is the smallest power of two that is >= size, and 2 for size 0
\* and 1; mask_ == capacity_ - 1; the buffer has the cells 0 .. capacity_ - 1.
RoundedUp ==
    /\ IsPowerOfTwo(capacity_)
    /\ capacity_ >= size
    /\ capacity_ >= 2
    /\ capacity_ > 2 => capacity_ \div 2 < size
    /\ mask_ = capacity_ - 1
    /\ DOMAIN cellSeq[0] = 0 .. (capacity_ - 1)

\* The new queue: head_ == tail_ == 0 and every cell i holds seq == i.
NewQueue ==
    /\ head_[0] = 0 /\ tail_[0] = 0
    /\ \A i \in DOMAIN cellSeq[0] : cellSeq[0][i] = i

\* While no push has claimed a position no pop gets past its seq load, and
\* while no pop has claimed a position exactly capacity_ pushes are accepted:
\* never more, and a push fails only when capacity_ positions are claimed
\* (with one producer: when capacity_ pushes have returned true).
EmptyThenCapacity ==
    /\ tail_[0] = 0 =>
          /\ poppedLog[0] = <<>>
          /\ \A t \in DOMAIN role :
                role[t] = "consumer" => pc[t] \in {"idle", "pop_seq", "pop_false"}
    /\ head_[0] = 0 =>
          /\ tail_[0] <= capacity_
          /\ Len(pushedLog[0]) <= capacity_
          /\ \A t \in DOMAIN role :
                pc[t] = "push_false" =>
                   /\ tail_[0] = capacity_
                   /\ SPSC => Len(pushedLog[0]) = capacity_

\* C29, as claimed: for every requested size the capacity is the smallest
\* power of two >= size (2 for size 0 and 1), mask_ == capacity_ - 1, every
\* cell i starts with seq == i, the new queue is empty and accepts exactly
\* capacity_ pushes.
C29_Original ==
    /\ NewQueue
    /\ [](RoundedUp /\ EmptyThenCapacity)

\* C29, as the code behaves: the claim holds for every requested size up to
\* the largest power of two of size_t; for a larger size n + 1 wraps to 0,
\* so capacity_ == 0, mask_ is the all-ones value and the buffer has no cell.
C29_RoundedUpUnlessWrapped ==
    /\ NewQueue
    /\ [](IF size <= SizeMod \div 2
          THEN RoundedUp /\ EmptyThenCapacity
          ELSE /\ capacity_ = 0
               /\ mask_ = SizeMod - 1
               /\ DOMAIN cellSeq[0] = {})

\* C29 witness: a ring requested with 5 cells has 8; its producer has had
\* 8 pushes accepted and the 9th refused, no pop having taken anything.
C29_Witness ==
    /\ size = 5
    /\ capacity_ = 8
    /\ head_[0] = 0
    /\ Len(pushedLog[0]) = 8
    /\ \E t \in DOMAIN role : pc[t] = "push_false"

(* =================== claims about slot ownership ======================= *)

\* The threads between their successful CAS on tail_ (on head_) at pos and
\* their store of seq.
InPushWindow(t) == pc[t] \in {"push_write", "push_store"}
InPopWindow(t) == pc[t] \in {"pop_read", "pop_store"}

\* Cell i is free for the push at position s == seq: s belongs to the cell,
\* the position one lap earlier has been popped, and s is not yet claimed
\* or is claimed by a thread that has not stored seq yet.
FreeFor(i, s) ==
    /\ s % capacity_ = i
    /\ s < head_[0] + capacity_
    /\ \/ s >= tail_[0]
       \/ \E t \in DOMAIN role : InPushWindow(t) /\ pos[t] = s

\* Cell i holds the committed item of position p == seq - 1: p belongs to
\* the cell, was claimed by a push, and is not yet claimed by a pop or is
\* claimed by a thread that has not stored seq yet.
CommittedAt(i, p) ==
    /\ p >= 0
    /\ p % capacity_ = i
    /\ p < tail_[0]
    /\ \/ p >= head_[0]
       \/ \E t \in DOMAIN role : InPopWindow(t) /\ pos[t] = p

\* C30: the seq of every cell is pos (free for the push at pos) or pos + 1
\* (holding the committed item of pos) for a position pos of that cell; seq
\* never decreases; and a thread between its CAS at pos and its store of seq
\* is alone in that window on its cell, whose seq no other thread has moved
\* (pos for a push, pos + 1 for a pop), so no other thread reads or writes
\* the cell's data.
C30_SlotOwnership ==
    /\ [](/\ \A i \in DOMAIN cellSeq[0] :
                \/ FreeFor(i, cellSeq[0][i])
                \/ CommittedAt(i, cellSeq[0][i] - 1)
          /\ \A t \in DOMAIN role :
                /\ InPushWindow(t) => cellSeq[0][pos[t] % capacity_] = pos[t]
                /\ InPopWindow(t) => cellSeq[0][pos[t] % capacity_] = pos[t] + 1
          /\ \A t, u \in DOMAIN role :
                ( /\ t # u
                  /\ InPushWindow(t) \/ InPopWindow(t)
                  /\ InPushWindow(u) \/ InPopWindow(u) )
                => pos[t] % capacity_ # pos[u] % capacity_)
    /\ [][\A i \in DOMAIN cellSeq[0] : cellSeq'[0][i] >= cellSeq[0][i]]_vars

\* C30 witness: after the ring has wrapped, a producer and a consumer are
\* both between their CAS and their seq store, each on its own cell, while
\* another consumer is inside pop.
C30_Witness ==
    /\ MPMC
    /\ tail_[0] > capacity_
    /\ \E t, u, v \in DOMAIN role :
          /\ InPushWindow(t)
          /\ InPopWindow(u)
          /\ v # u /\ pc[v] \in {"pop_seq", "pop_cas"}

(* ----------- claims about the scan for the next best (engine) ---------- *)

\* The reference: a linear search over the occupied ticks for the nearest one
\* beyond the emptied tick, upward for asks and downward for bids.
LinearBest(occupied, side, emptied_tick) ==
    LET beyond == {t \in occupied :
                      IF side = SIDE_SELL THEN t > emptied_tick ELSE t < emptied_tick}
    IN  IF beyond = {} THEN NO_PRICE
        ELSE CHOOSE t \in beyond :
                \A u \in beyond : IF side = SIDE_SELL THEN t <= u ELSE t >= u

\* The ticks of a side whose level held orders in E and holds none in E2.
EmptiedTicks(E, E2, side) ==
    {t \in Ticks : Level(E, side, t).head # NIL /\ Level(E2, side, t).head = NIL}

\* What one call has done to the best price of a side between engine states
\* E and E2, when the call removes orders from that side and adds none: the
\* levels it emptied were each the best when they emptied, the new best is
\* what the linear search beyond each of them gives, and if the level at the
\* best was not emptied the best is the same.
ScannedLikeLinear(E, E2, side) ==
    LET gone == EmptiedTicks(E, E2, side)
    IN  IF Best(E, side) \in gone
        THEN \A t \in gone :
                Best(E2, side) = LinearBest(OccupiedTicks(E2, side), side, t)
        ELSE Best(E2, side) = Best(E, side)

\* clear_level applied to a tick of a side in state E compared with the
\* linear search, the level at the tick taken as emptied.
ClearLevelLikeLinear(E, side, t) ==
    LET E2 == clear_level(E, side, t)
    IN  IF t = Best(E, side)
        THEN Best(E2, side) = LinearBest(OccupiedTicks(E, side) \ {t}, side, t)
        ELSE Best(E2, side) = Best(E, side)

\* The arguments of a replace call pass both checks of replace: handle in
\* range and live in E, quantity not zero, tick in range.
ReplaceAccepted(E, c) ==
    /\ c.handle < MAX_ORDERS
    /\ c.qty # 0
    /\ c.price_tick < MAX_TICKS
    /\ E.handles_[c.handle] # NIL

InCall(t) == pc[t] \notin Returned

\* Thread t is about to go round the loop of push without having returned:
\* it is at the reload of the branch dif > 0.
AtReload(t) == pc[t] \in {"push_reload", "pop_reload"}

\* The position that push or pop of thread t competes for: tail_ of its ring
\* in push, head_ in pop.
Contended(t) ==
    IF pc[t] \in {"push_seq", "push_reload", "push_cas"} THEN tail_[rq[t]]
    ELSE head_[rq[t]]

\* The step is a CAS of thread t that fails and sends it round the loop.
CasFails(t) ==
    /\ pc[t] \in {"push_cas", "pop_cas"}
    /\ pc'[t] \in {"push_seq", "pop_seq"}

\* C32: push and pop never wait for another thread.  (1) A thread running
\* alone, all others suspended for good wherever they were in their push or
\* pop, returns from its call within SOLO_STEPS of its own steps, and until
\* then always has a next step.  (2) A pass of the loop that does not return
\* has a cause outside the thread: at the reload of the branch dif > 0 the
\* tail (head for pop) has moved past the thread's pos, and a failed CAS
\* either finds the tail (head) moved past pos or is a spurious failure that
\* changes nothing.
C32_NeverWaits ==
    /\ [](\A t \in solo :
            /\ soloSteps <= SOLO_STEPS
            /\ soloSteps = SOLO_STEPS => ~InCall(t)
            /\ InCall(t) => ENABLED (PushStep(t) \/ PopStep(t)))
    /\ [](\A t \in DOMAIN role : AtReload(t) => Contended(t) > pos[t])
    /\ [][\A t \in DOMAIN role :
            CasFails(t) =>
               \/ Contended(t) > pos[t] /\ pos'[t] = Contended(t)
               \/ Contended(t) = pos[t] /\ pos'[t] = pos[t] /\ ringVars' = ringVars]_vars

\* C32 witness: on a full ring a consumer was suspended for good between its
\* CAS on head_ and its seq store; the producer, running alone, has called
\* push and got false back, within its step budget.
C32_Witness ==
    \E t \in solo : \E u \in DOMAIN role :
       /\ role[t] = "producer"
       /\ pc[t] = "push_false"
       /\ soloSteps > 0
       /\ role[u] = "consumer"
       /\ pc[u] \in {"pop_read", "pop_store"}
       /\ tail_[0] - head_[0] < capacity_

(* ------------------ claims about the ring's observers ------------------ *)

\* The observer call has returned from fn.
Observed(fn) == obs.pc = "done" /\ obs.fn = fn

\* No push or pop claimed a position between the two loads of the call.
QuietCall == obs.minHeld = obs.maxHeld

\* The head_ loaded second is beyond the tail_ loaded first: between the two
\* loads items were pushed and popped past the loaded tail.
HeadPassedTail == obs.second > obs.first

\* C40, as claimed: called while other threads push and pop, size() returns
\* a value in [0, capacity], available() returns a value in [0, capacity],
\* full() returns true only if tail_ - head_ was capacity at some instant
\* during the call, and empty() returns true only if tail_ - head_ was 0 at
\* some instant during the call.
C40_Original ==
    /\ Observed("size") => obs.result \in 0 .. capacity_
    /\ Observed("available") => obs.result \in 0 .. capacity_
    /\ Observed("full") /\ obs.flag => obs.maxHeld = capacity_
    /\ Observed("empty") /\ obs.flag => obs.minHeld = 0

\* C40, what the code keeps: empty() keeps its part of the claim; size(),
\* available() and full() keep theirs when head_ has not passed the loaded
\* tail_ by the second load (size() may then still return less than the ring
\* ever held during the call), and are exact when no position was claimed
\* during the call; when head_ has passed the loaded tail_, t - h wraps in
\* size_t: size() returns a value above capacity, available() returns a
\* value above capacity, and full() returns true.
C40_ObserversRace ==
    /\ Observed("empty") /\ obs.flag => obs.minHeld = 0
    /\ Observed("empty") /\ QuietCall => obs.flag = (obs.minHeld = 0)
    /\ Observed("size") =>
          IF HeadPassedTail
          THEN obs.result = SizeMod - (obs.second - obs.first) /\ obs.result > capacity_
          ELSE obs.result \in 0 .. obs.maxHeld /\ obs.result <= capacity_
    /\ Observed("available") =>
          IF HeadPassedTail
          THEN obs.result = capacity_ + (obs.second - obs.first)
          ELSE obs.result \in (capacity_ - obs.maxHeld) .. capacity_
    /\ Observed("full") =>
          IF HeadPassedTail THEN obs.flag
          ELSE obs.flag => obs.maxHeld = capacity_
    /\ Observed("full") /\ QuietCall => obs.flag = (obs.maxHeld = capacity_)
    /\ Observed("size") /\ QuietCall => obs.result = obs.maxHeld
    /\ Observed("available") /\ QuietCall => obs.result = capacity_ - obs.maxHeld

\* C40 witness: size() loaded tail_ of the empty ring; one item was pushed
\* and popped; size() then loaded head_ and returned SIZE_MAX, although the
\* ring never held more than one item.
C40_Witness ==
    /\ Observed("size")
    /\ obs.first = 0
    /\ obs.second = 1
    /\ obs.maxHeld = 1
    /\ obs.result = SizeMod - 1
    /\ capacity_ = RingSize

(* ------------------ claims about BUY / SELL symmetry ------------------- *)

\* The mirror image of a best price.
MirrorPrice(p) == IF p = NO_PRICE THEN NO_PRICE ELSE MAX_TICKS - 1 - p

\* The orders of a level from head to tail: pool slot, handle, quantity.
OrdersAt(E, side, t) ==
    [k \in 1 .. Len(LevelSeq(E, side, t)) |->
        [slot |-> LevelSeq(E, side, t)[k],
         id   |-> E.pool_[LevelSeq(E, side, t)[k]].id,
         qty  |-> E.pool_[LevelSeq(E, side, t)[k]].qty]]

\* E2 is the mirror image of E: every level of E is the level of the other
\* side at the mirrored tick of E2, with the same orders in the same order,
\* the same total and the same occupancy bit; the best prices correspond;
\* handle table, cursor, free list and counters are the same.
MirrorImage(E, E2) ==
    /\ \A side \in SideInputs, t \in Ticks :
          /\ OrdersAt(E2, MirrorSide(side), MAX_TICKS - 1 - t) = OrdersAt(E, side, t)
          /\ Level(E2, MirrorSide(side), MAX_TICKS - 1 - t).total_qty
                = Level(E, side, t).total_qty
          /\ test_bit(BitsOf(E2, MirrorSide(side)), MAX_TICKS - 1 - t)
                = test_bit(BitsOf(E, side), t)
          /\ \A i \in SlotsOf(LevelSeq(E, side, t)) :
                /\ E2.pool_[i].side = MirrorSide(E.pool_[i].side)
                /\ E2.pool_[i].price_tick = MAX_TICKS - 1 - E.pool_[i].price_tick
    /\ E2.best_ask_ = MirrorPrice(E.best_bid_)
    /\ E2.best_bid_ = MirrorPrice(E.best_ask_)
    /\ E2.handles_ = E.handles_
    /\ E2.next_handle_ = E.next_handle_
    /\ FreeList(E2) = FreeList(E)
    /\ E2.total_trades_ = E.total_trades_
    /\ E2.total_volume_ = E.total_volume_

\* The trades of the two calls correspond: the same makers, for the same
\* quantities, on the other side at the mirrored tick.
MirrorTrades(trades, trades2) ==
    /\ Len(trades2) = Len(trades)
    /\ \A k \in 1 .. Len(trades) :
          /\ trades2[k].id = trades[k].id
          /\ trades2[k].idx = trades[k].idx
          /\ trades2[k].qty = trades[k].qty
          /\ trades2[k].side = MirrorSide(trades[k].side)
          /\ trades2[k].tick = MAX_TICKS - 1 - trades[k].tick

\* C33: SELL handling is the mirror image of BUY handling.  Any sequence of
\* add_limit, cancel and replace calls on one engine, and the same sequence
\* on a second engine with every side swapped and every tick t replaced by
\* MAX_TICKS - 1 - t, give after every call the same return value (handle,
\* DONE_FILL, REJECT, or the flag of cancel), the same trades against the
\* same makers, the same total_trades and total_volume, and books that are
\* mirror images: best_bid of one is the mirror of best_ask of the other.
C33_SellMirrorsBuy ==
    /\ twin.result = call.result
    /\ twin.ok = call.ok
    /\ MirrorTrades(call.trades, twin.trades)
    /\ MirrorImage(engine, twin.E)

\* C33 witness: a SELL rested at tick 1 and a second one at tick 2 on the
\* first engine (BUYs at ticks 1 and 0 on the second); a BUY at tick 2 for
\* the sum then swept both levels of the first engine, as the mirrored SELL
\* at tick 0 did on the second.
C33_Witness ==
    /\ AddReturned
    /\ call.side = SIDE_BUY
    /\ call.price_tick = MAX_TICKS - 1
    /\ call.result = DONE_FILL
    /\ Len(call.trades) = 2
    /\ call.trades[1].tick = 1
    /\ call.trades[2].tick = 2
    /\ Len(twin.trades) = 2
    /\ twin.trades[2].tick = 0
    /\ twin.trades[2].side = SIDE_BUY
    /\ twin.result = DONE_FILL
    /\ twin.E.total_trades_ = 2

(* -------------------- claims about handle assignment ------------------- *)

\* The reference: the first slot of the handle table holding NIL in the
\* cyclic order cursor, cursor + 1, ..., wrapping modulo MAX_ORDERS; NIL if
\* every slot is taken.
FirstFreeFrom(handles, cursor) ==
    LET free == {d \in 0 .. (MAX_ORDERS - 1) : handles[(cursor + d) % MAX_ORDERS] = NIL}
    IN  IF free = {} THEN NIL
        ELSE (cursor + (CHOOSE d \in free : \A e \in free : d <= e)) % MAX_ORDERS

\* The handle table as enqueue_resting found it in a call that returned the
\* handle h: the table after the call without the new entry.
TableBeforeRest(E2, h) == [E2.handles_ EXCEPT ![h] = NIL]

\* C34: when an order rests (add_limit or replace returns a handle), the
\* handle is the first slot holding NIL found from the cursor next_handle_
\* upward with wrap-around modulo MAX_ORDERS, in the table as matching (and
\* the cancel of a replace) left it, and the cursor becomes that handle + 1
\* modulo MAX_ORDERS; a call that rests nothing leaves the cursor alone.  The
\* probe ends within MAX_ORDERS steps: in every state a free pool node
\* implies a slot holding NIL, and the probe from the cursor finds it.
C34_HandleProbe ==
    /\ [](engine.free_head_ # NIL =>
             /\ \E h \in Slots : engine.handles_[h] = NIL
             /\ ProbeHandle(engine.handles_, engine.next_handle_, 0) \in Slots
             /\ ProbeHandle(engine.handles_, engine.next_handle_, 0)
                   = FirstFreeFrom(engine.handles_, engine.next_handle_))
    /\ [][IsTakerStep =>
             IF IsHandle(call'.result)
             THEN /\ call'.result
                        = FirstFreeFrom(TableBeforeRest(engine', call'.result),
                                        engine.next_handle_)
                  /\ engine'.next_handle_ = (call'.result + 1) % MAX_ORDERS
                  /\ engine'.handles_[call'.result] # NIL
             ELSE engine'.next_handle_ = engine.next_handle_]_vars
    /\ [][IsCancelStep => engine'.next_handle_ = engine.next_handle_]_vars

\* C34 witness: with handles 0, 1 and 2 taken and the cursor wrapped to 0, a
\* replace of handle 1 freed its slot and rested the new order: the probe
\* passed over slot 0, still taken, and took slot 1; the cursor is now 2.
C34_Witness ==
    /\ ReplaceReturned
    /\ call.handle = 1
    /\ call.result = 1
    /\ engine.next_handle_ = 2
    /\ engine.handles_[0] # NIL
    /\ engine.handles_[2] # NIL
    /\ ncalls = MAX_ORDERS + 1

(* ------------------- claims about crossing (engine) -------------------- *)

\* C35: after any sequence of add_limit, cancel and replace calls the book
\* is not crossed: whenever best_bid_ and best_ask_ are both different from
\* NO_PRICE, best_bid_ < best_ask_; and so are the levels themselves: every
\* occupied bid tick is below every occupied ask tick.
C35_NeverCrossed ==
    /\ (engine.best_bid_ # NO_PRICE /\ engine.best_ask_ # NO_PRICE)
          => engine.best_bid_ < engine.best_ask_
    /\ \A b \in OccupiedTicks(engine, SIDE_BUY), a \in OccupiedTicks(engine, SIDE_SELL) :
          b < a

\* C35 witness: a bid rests one tick below a resting ask, and the call that
\* has just returned was a BUY at the ask's tick or above that traded with
\* an ask and rested its remainder there: the best ask moved up past it.
C35_Witness ==
    /\ AddReturned
    /\ call.side = SIDE_BUY
    /\ call.trades # <<>>
    /\ IsHandle(call.result)
    /\ engine.best_bid_ = call.price_tick
    /\ engine.best_ask_ = engine.best_bid_ + 1
    /\ call.trades[1].tick < engine.best_bid_

\* The side of the order that an add_limit or replace step brings in: the
\* side argument, or the side of the order that the replace cancels.
TakerSide ==
    IF call'.op = "add_limit" THEN call'.side
    ELSE engine.pool_[engine.handles_[call'.handle]].side

\* A tick of the makers' side that a taker of the given side and limit
\* accepts.
Acceptable(side, price_tick, t) ==
    IF side = SIDE_BUY THEN t <= price_tick ELSE t >= price_tick

\* C36: a taker never trades through its limit and never rests while
\* acceptable liquidity remains.  On every add_limit step and every accepted
\* replace step, each trade is against an order that rested on the opposite
\* side at the trade's tick, and that tick is <= price_tick for a BUY and
\* >= price_tick for a SELL; and if the call returns a handle (a remainder
\* rests), no level of the opposite side at an acceptable tick is occupied.
C36_NoTradeThrough ==
    [][(IsAddStep \/ (IsReplaceStep /\ ReplaceAccepted(engine, call'))) =>
          /\ \A i \in 1 .. Len(call'.trades) :
                LET t == call'.trades[i]
                IN  /\ t.side = Opposite(TakerSide)
                    /\ engine.pool_[t.idx].side = Opposite(TakerSide)
                    /\ engine.pool_[t.idx].price_tick = t.tick
                    /\ t.idx \in LiveSlots(engine)
                    /\ Acceptable(TakerSide, call'.price_tick, t.tick)
          /\ IsHandle(call'.result) =>
                \A t \in OccupiedTicks(engine', Opposite(TakerSide)) :
                   ~Acceptable(TakerSide, call'.price_tick, t)
      ]_vars

\* C36 witness: a SELL traded with a bid above its tick, rested its
\* remainder, and a bid below its tick is still resting.
C36_Witness ==
    /\ AddReturned
    /\ call.side = SIDE_SELL
    /\ call.trades # <<>>
    /\ call.trades[1].tick > call.price_tick
    /\ IsHandle(call.result)
    /\ \E t \in OccupiedTicks(engine, SIDE_BUY) : t < call.price_tick

(* ---------------- claims about REJECT and replace (engine) ------------- *)

\* C37: whenever add_limit returns REJECT for an order without the IOC flag
\* (invalid order or pool exhaustion), it has traded nothing and the engine
\* state is unchanged; a non-IOC order that has traded and still has a
\* remainder never gets REJECT: every maker it traded with was consumed in
\* full and freed, and its remainder rests in the node of the last of them.
C37_RejectChangesNothing ==
    [][(IsAddStep /\ ~IsIOC(call'.flags)) =>
          /\ call'.result = NIL =>
                /\ engine' = engine
                /\ call'.trades = <<>>
                /\ InvalidOrder(call'.qty, call'.price_tick) \/ engine.free_head_ = NIL
          /\ (call'.trades # <<>> /\ call'.remaining # 0) =>
                /\ IsHandle(call'.result)
                /\ \A i \in 1 .. Len(call'.trades) :
                      /\ call'.trades[i].maker_after = 0
                      /\ engine'.handles_[call'.trades[i].id] # call'.trades[i].idx
                            \/ call'.trades[i].id = call'.result
                /\ engine'.handles_[call'.result]
                      = call'.trades[Len(call'.trades)].idx
      ]_vars

\* C37 witness: all nodes were in use; a BUY without the IOC bit filled a
\* maker, and its remainder rests in the maker's node: all nodes are in use
\* again.
C37_Witness ==
    /\ AddReturned
    /\ ~IsIOC(call.flags)
    /\ call.trades # <<>>
    /\ call.remaining # 0
    /\ IsHandle(call.result)
    /\ engine.handles_[call.result] = call.trades[1].idx
    /\ PoolFull(engine)
    /\ engine.free_head_ = NIL

\* The orders of a level behind slot i, from the one next to it to the tail.
Behind(E, i) == Chain(E, E.pool_[i].next_idx, MAX_ORDERS + 1)

\* C38: replace with a live handle, new_qty > 0 and new_tick < MAX_TICKS
\* never returns REJECT: it returns DONE_FILL or a handle.  The order it
\* rests has the side of the original order, the new tick and the quantity
\* left after matching, and it is the tail of its level: every order that
\* rested at that level before, also one that was behind the original order
\* at the same tick, is now in front of it.
C38_ReplaceNeverRejects ==
    [][(IsReplaceStep /\ ReplaceAccepted(engine, call')) =>
          LET old == engine.pool_[engine.handles_[call'.handle]]
          IN  /\ call'.result # NIL
              /\ call'.result = DONE_FILL \/ IsHandle(call'.result)
              /\ call'.result = DONE_FILL <=> call'.remaining = 0
              /\ engine'.handles_[call'.handle] = NIL \/ call'.result = call'.handle
              /\ IsHandle(call'.result) =>
                    LET slot == engine'.handles_[call'.result]
                        n == engine'.pool_[slot]
                        lvl == Level(engine', old.side, call'.price_tick)
                    IN  /\ slot # NIL
                        /\ n.side = old.side
                        /\ n.price_tick = call'.price_tick
                        /\ n.qty = call'.remaining
                        /\ n.id = call'.result
                        /\ lvl.tail = slot
                        /\ n.next_idx = NIL
                        /\ \A i \in LiveSlots(engine) :
                              (/\ i # engine.handles_[call'.handle]
                               /\ engine.pool_[i].side = old.side
                               /\ engine.pool_[i].price_tick = call'.price_tick) =>
                                 /\ i \in LiveSlots(engine')
                                 /\ slot \in Range(Behind(engine', i))
      ]_vars

\* C38 witness: with all nodes in use an order was replaced without trading;
\* it is the tail of its level, behind an order that had rested after the
\* original (a greater handle, a smaller stamp than the replacement).
C38_Witness ==
    /\ ReplaceReturned
    /\ IsHandle(call.result)
    /\ call.trades = <<>>
    /\ LET slot == engine.handles_[call.result]
           lvl == Level(engine, engine.pool_[slot].side, call.price_tick)
       IN  /\ lvl.tail = slot
           /\ lvl.head # slot
           /\ restedAt[lvl.head] < restedAt[slot]
           /\ engine.pool_[lvl.head].id > call.handle
    /\ PoolFull(engine)

\* The cause of a REJECT of replace: the handle is out of range or not
\* live, the quantity is 0 or the tick is out of range.
ReplaceRefused(E, c) ==
    \/ c.handle >= MAX_ORDERS
    \/ c.qty = 0
    \/ c.price_tick >= MAX_TICKS
    \/ E.handles_[c.handle] = NIL

\* C39: replace returns REJECT and leaves the whole engine state unchanged
\* when handle >= MAX_ORDERS, the handle is not live, new_qty == 0 or
\* new_tick >= MAX_TICKS: nothing trades, and if the handle is that of a
\* live order, the order keeps its node, quantity and place in the FIFO of
\* its level, and cancel(handle) still finds it.
C39_ReplaceRejectKeepsOrder ==
    [][(IsReplaceStep /\ ReplaceRefused(engine, call')) =>
          /\ call'.result = NIL
          /\ call'.trades = <<>>
          /\ engine' = engine
          /\ restedAt' = restedAt
          /\ (call'.handle < MAX_ORDERS /\ engine.handles_[call'.handle] # NIL) =>
                LET slot == engine.handles_[call'.handle]
                    n == engine.pool_[slot]
                IN  /\ engine'.handles_[call'.handle] = slot
                    /\ engine'.pool_[slot] = n
                    /\ LevelSeq(engine', n.side, n.price_tick)
                          = LevelSeq(engine, n.side, n.price_tick)
                    /\ slot \in Range(LevelSeq(engine', n.side, n.price_tick))
                    /\ cancel(engine', call'.handle).result
      ]_vars

\* C39 witness: a replace of a live order with new_qty == 0 or
\* new_tick >= MAX_TICKS has returned REJECT; the order is still the head of
\* its level with another order behind it.
C39_Witness ==
    /\ ReplaceReturned
    /\ call.result = NIL
    /\ call.handle < MAX_ORDERS
    /\ engine.handles_[call.handle] # NIL
    /\ call.qty = 0 \/ call.price_tick >= MAX_TICKS
    /\ LET slot == engine.handles_[call.handle]
           n == engine.pool_[slot]
       IN  /\ Level(engine, n.side, n.price_tick).head = slot
           /\ n.next_idx # NIL

====
